---- MODULE Spec2Model ----
(***************************************************************************)
(* Model of the speed-test client (src/Client.py), of the speed-test       *)
(* server (src/Server.py) and of the wire codec (src/general.py).          *)
(*                                                                         *)
(* Client: the main thread runs initialize_client / find_available_server  *)
(* / execute_performance_tests; every test run is its own thread running   *)
(* perform_tcp_test or perform_udp_test.  The threads share is_running,    *)
(* file_size, active_tests and performance_data, the last two guarded by   *)
(* sync_lock.  A `x += 1` on a shared field is a read followed by a write. *)
(* Exceptions follow Python >= 3.10, where socket.timeout is TimeoutError. *)
(***************************************************************************)
EXTENDS Integers, Sequences, FiniteSets, TLC

\* ---------------------------------------------------------------- bounds
MaxThreads == 2
MaxSessions == 2
MaxFileSize == 2
MaxDuration == 1
MaxSegs == 2
MaxPackets == 2
RunThreads == 1
ConcurrentSessions == 1
ConcurrentFileSize == 1
ConcurrentSegs == 1
MaxServerSegs == 2
MaxHosts == 2
MaxPort == 2
MaxDatagrams == 2
MaxRequestLen == 3
MaxRequests == 2
IdleLimit == 2
ConcurrentIdle == 1

\* ------------------------------------------------------ program constants
max_attempts == 3
MAX_CHUNK_SIZE == 65536
HEADER_SIZE == 21
PAYLOAD_TYPE == 4
REQUEST_TYPE == 3
REQUEST_SIZE == 13
GENERAL_HEADER_SIZE == 5
OFFER_MESSAGE_TYPE == 2
REQUEST_MESSAGE_TYPE == 3
PAYLOAD_MESSAGE_TYPE == 4
EXPECTED_MSG_SIZE == 9
SERVER_MSG_TYPE == 2
segment_size == 1024
massage_offer == 2
protocol_cookie == <<171, 205, 220, 186>>
validator == <<171, 205, 220, 186>>
MAGIC_COOKIE == <<171, 205, 220, 186>>

\* ------------------------------------------------------------- constants
Threads == 1..MaxThreads
MainThread == 0
Unlocked == -1
None == -1
Durations == 0..MaxDuration
OtherCookie == <<0, 0, 0, 0>>

VARIABLES
    state,              \* Client.state
    is_running,         \* Client.is_running
    file_size,          \* Client.file_size
    sync_lock,          \* holder of Client.sync_lock, or Unlocked
    active_tests,       \* Client.active_tests
    performance_data,   \* Client.performance_data
    mainpc,             \* position of the main thread
    sessions,           \* number of test sessions entered so far
    counts,             \* the values returned by get_test_counts
    test_num,           \* loop variable of launch_test_threads
    test_threads,       \* the list test_threads of execute_performance_tests
    join_idx,           \* position of the join loop in test_threads
    deadline_passed,    \* TEST_TIMEOUT has elapsed since start_time
    printed,            \* display_test_results has printed this session's statistics
    reported,           \* the blocks of statistics display_test_results has printed
    threads,            \* the locals of every test thread
    committed,          \* history: updates of performance_data completed since the last reset
    discovered_servers, \* the list discovered_servers of find_available_server
    window,             \* history: the datagrams received in this discovery window
    first_offer,        \* history: the first valid offer of the window, kept for the session
    server_args,        \* server_host, udp_port, tcp_port of execute_performance_tests
    srv,                \* the locals of one _handle_udp_speed_test worker
    server,             \* the Server object and the position of Server.start
    conn,               \* the locals of one _handle_tcp_client worker
    codec               \* one use of the codec of general.py: input, buffer, result

vars == <<state, is_running, file_size, sync_lock, active_tests,
          performance_data, mainpc, sessions, counts, test_num, test_threads,
          join_idx, deadline_passed, printed, reported, threads, committed,
          discovered_servers, window, first_offer, server_args,
          srv, server, conn, codec>>

clientVars == <<state, is_running, file_size, sync_lock, active_tests,
                performance_data, mainpc, sessions, counts, test_num,
                test_threads, join_idx, deadline_passed, printed, reported, threads,
                committed, discovered_servers, window, first_offer,
                server_args>>

serverVars == <<srv, server, conn, codec>>

discoveryVars == <<discovered_servers, window, first_offer, server_args>>

mainVars == <<state, file_size, mainpc, sessions, counts, test_num,
              test_threads, join_idx, deadline_passed, printed, reported,
              discovered_servers, window, first_offer, server_args>>

Min(a, b) == IF a < b THEN a ELSE b

\* Client.__init__ / initialize_performance_data: the empty accumulator
EmptyPerformanceData ==
    [tcp |-> [timings |-> <<>>,
              failures |-> [connections |-> 0, transfers |-> 0],
              successes |-> 0],
     udp |-> [timings |-> <<>>,
              packets |-> [received |-> 0, lost |-> 0]]]

EmptyCommitted ==
    [connections |-> 0, transfers |-> 0, successes |-> 0,
     tcp_timings |-> 0, udp_timings |-> 0, received |-> 0, lost |-> 0]

\* a thread object that has not been started
NotStarted ==
    [kind |-> "none", pc |-> "none", attempt_count |-> 0,
     tcp_socket |-> "None", bytes_received |-> 0, duration |-> 0,
     error_type |-> "none", tmp |-> 0, outcome |-> "none",
     total_segments |-> None, received_segments |-> {}, lost_packets |-> 0,
     loss_percentage |-> <<0, 1>>,
     arrivals |-> <<>>, connects |-> 0, ever_connected |-> FALSE,
     open_sockets |-> 0, idle |-> 0,
     server_host |-> None, server_port |-> None, started_running |-> TRUE,
     recorded |-> [connections |-> 0, transfers |-> 0, successes |-> 0,
                   timings |-> 0, received |-> 0, lost |-> 0]]

\* `with self.sync_lock:` entry and exit
AcquireUnchecked(t) == sync_lock' = t

Acquire(t) == sync_lock = Unlocked /\ sync_lock' = t

Release(t) == sync_lock' = Unlocked


\* ------------------------------------------------------------------------
\* perform_tcp_test  (src/Client.py 262-360); t is the thread running it
\* ------------------------------------------------------------------------
Th(t) == threads[t]

\* except (ConnectionRefusedError, TimeoutError): attempt_count += 1, then
\* record_failure('connections', ...)
RaiseRetryable(r) ==
    [r EXCEPT !.attempt_count = r.attempt_count + 1,
              !.error_type = "connections",
              !.pc = "record_failure"]

\* except Exception: record_failure('transfers', ...)
RaiseOther(r) ==
    [r EXCEPT !.error_type = "transfers", !.pc = "record_failure"]

\* while attempt_count < self.max_attempts and self.is_running:
\*     tcp_socket = setup_socket()
\* setup_socket returns a new socket each time; open_sockets is the history
\* of the sockets this run has created and not closed with close()
TcpLoopUnbounded(t) ==
    /\ Th(t).kind = "tcp" /\ Th(t).pc = "loop"
    /\ threads' = [threads EXCEPT ![t] =
          IF is_running
          THEN [@ EXCEPT !.tcp_socket = "open", !.open_sockets = @ + 1,
                         !.pc = "active_inc"]
          ELSE [@ EXCEPT !.pc = "finally"]]
    /\ UNCHANGED <<mainVars, is_running, sync_lock, active_tests,
                   performance_data, committed, serverVars>>

TcpLoop(t) ==
    /\ Th(t).kind = "tcp" /\ Th(t).pc = "loop"
    /\ threads' = [threads EXCEPT ![t] =
          IF Th(t).attempt_count < max_attempts /\ is_running
          THEN [@ EXCEPT !.tcp_socket = "open", !.open_sockets = @ + 1,
                         !.pc = "active_inc"]
          ELSE [@ EXCEPT !.pc = "finally"]]
    /\ UNCHANGED <<mainVars, is_running, sync_lock, active_tests,
                   performance_data, committed, serverVars>>

\* with self.sync_lock: self.active_tests += 1      (the read)
TcpActiveIncAcquire(t) ==
    /\ Th(t).kind = "tcp" /\ Th(t).pc = "active_inc"
    /\ Acquire(t)
    /\ threads' = [threads EXCEPT ![t] =
          [@ EXCEPT !.tmp = active_tests, !.pc = "active_inc_write"]]
    /\ UNCHANGED <<mainVars, is_running, active_tests, performance_data,
                   committed, serverVars>>

\* with self.sync_lock: self.active_tests += 1      (the write, lock exit)
TcpActiveIncRelease(t) ==
    /\ Th(t).kind = "tcp" /\ Th(t).pc = "active_inc_write"
    /\ active_tests' = Th(t).tmp + 1
    /\ Release(t)
    /\ threads' = [threads EXCEPT ![t] =
          [@ EXCEPT !.tmp = 0, !.pc = "connect"]]
    /\ UNCHANGED <<mainVars, is_running, performance_data, committed, serverVars>>

\* tcp_socket.connect((server_host, server_port))
TcpConnect(t) ==
    /\ Th(t).kind = "tcp" /\ Th(t).pc = "connect"
    /\ \E outcome \in {"ok", "refused", "timeout", "error"} :
         threads' = [threads EXCEPT ![t] =
            LET r == [@ EXCEPT !.connects = @ + 1] IN
            CASE outcome = "ok" ->
                    [r EXCEPT !.tcp_socket = "connected",
                              !.ever_connected = TRUE,
                              !.pc = "send"]
              [] outcome \in {"refused", "timeout"} -> RaiseRetryable(r)
              [] OTHER -> RaiseOther(r)]
    /\ UNCHANGED <<mainVars, is_running, sync_lock, active_tests,
                   performance_data, committed, serverVars>>

\* tcp_socket.send(f"{self.file_size}\n".encode()); then the first lines of
\* handle_data_transfer: bytes_received = 0, transfer_start = time.time()
TcpSend(t) ==
    /\ Th(t).kind = "tcp" /\ Th(t).pc = "send"
    /\ \E outcome \in {"ok", "timeout", "error"} :
         threads' = [threads EXCEPT ![t] =
            CASE outcome = "ok" ->
                    [@ EXCEPT !.bytes_received = 0, !.pc = "transfer"]
              [] outcome = "timeout" -> RaiseRetryable(@)
              [] OTHER -> RaiseOther(@)]
    /\ UNCHANGED <<mainVars, is_running, sync_lock, active_tests,
                   performance_data, committed, serverVars>>

\* the test the code makes before record_success: `if duration > 0`,
\* else raise ConnectionError, caught by `except Exception`
TransferVerified(duration) == duration > 0

\* handle_data_transfer returns (time.time() - transfer_start,
\* bytes_received) and perform_tcp_test tests the duration
Returned(r, d) ==
    IF TransferVerified(d)
    THEN [r EXCEPT !.duration = d, !.pc = "record_success"]
    ELSE RaiseOther([r EXCEPT !.duration = d])

\* while bytes_received < self.file_size and self.is_running:
TcpTransferLoop(t) ==
    /\ Th(t).kind = "tcp" /\ Th(t).pc = "transfer"
    /\ IF Th(t).bytes_received < file_size /\ is_running
       THEN threads' = [threads EXCEPT ![t] = [@ EXCEPT !.pc = "select"]]
       ELSE \E d \in Durations :
               threads' = [threads EXCEPT ![t] = Returned(@, d)]
    /\ UNCHANGED <<mainVars, is_running, sync_lock, active_tests,
                   performance_data, committed, serverVars>>

\* an exception leaves handle_data_transfer and its local bytes_received
Raised(r) == [r EXCEPT !.bytes_received = 0]

\* the read timeout: `if not ready_sockets: raise TimeoutError(...)`, which
\* the `except (ConnectionRefusedError, TimeoutError)` clause catches
ReadTimeout(r) == RaiseRetryable(Raised(r))

\* the chunk lengths sock.recv(size) can return: b'' when the peer has
\* closed, else 1..size bytes
RecvLengths(size) == 0..size

\* the body of the receive loop: select, recv (which raises on a negative
\* size), `if not data_chunk: break`, bytes_received += len(data_chunk)
TcpReceive(t) ==
    /\ Th(t).kind = "tcp" /\ Th(t).pc = "select"
    /\ LET remaining_bytes == file_size - Th(t).bytes_received
           size == Min(MAX_CHUNK_SIZE, remaining_bytes) IN
       \/ threads' = [threads EXCEPT ![t] = ReadTimeout(@)]
       \/ threads' = [threads EXCEPT ![t] = RaiseOther(Raised(@))]
       \/ /\ size >= 0
          /\ \E n \in RecvLengths(size) :
               IF n = 0
               THEN \E d \in Durations :
                       threads' = [threads EXCEPT ![t] = Returned(@, d)]
               ELSE threads' = [threads EXCEPT ![t] =
                       [@ EXCEPT !.bytes_received = @ + n,
                                 !.pc = "transfer"]]
    /\ UNCHANGED <<mainVars, is_running, sync_lock, active_tests,
                   performance_data, committed, serverVars>>

\* record_success: lock entry, timings.append(duration), read of successes
TcpRecordSuccessAcquire(t) ==
    /\ Th(t).kind = "tcp" /\ Th(t).pc = "record_success"
    /\ Acquire(t)
    /\ performance_data' = [performance_data EXCEPT
          !.tcp.timings = Append(@, Th(t).duration)]
    /\ committed' = [committed EXCEPT !.tcp_timings = @ + 1]
    /\ threads' = [threads EXCEPT ![t] =
          [@ EXCEPT !.tmp = performance_data.tcp.successes,
                    !.pc = "record_success_write"]]
    /\ UNCHANGED <<mainVars, is_running, active_tests, serverVars>>

\* record_success: write of successes, lock exit; then `break`
TcpRecordSuccessRelease(t) ==
    /\ Th(t).kind = "tcp" /\ Th(t).pc = "record_success_write"
    /\ performance_data' = [performance_data EXCEPT
          !.tcp.successes = Th(t).tmp + 1]
    /\ committed' = [committed EXCEPT !.successes = @ + 1]
    /\ Release(t)
    /\ threads' = [threads EXCEPT ![t] =
          [@ EXCEPT !.recorded.successes = @ + 1,
                    !.recorded.timings = @ + 1, !.tmp = 0,
                    !.pc = "finally"]]
    /\ UNCHANGED <<mainVars, is_running, active_tests, serverVars>>

\* record_failure: lock entry and read of failures[error_type]
TcpRecordFailureAcquire(t) ==
    /\ Th(t).kind = "tcp" /\ Th(t).pc = "record_failure"
    /\ Acquire(t)
    /\ threads' = [threads EXCEPT ![t] =
          [@ EXCEPT !.tmp = performance_data.tcp.failures[Th(t).error_type],
                    !.pc = "record_failure_write"]]
    /\ UNCHANGED <<mainVars, is_running, active_tests, performance_data,
                   committed, serverVars>>

\* record_failure: write of failures[error_type], lock exit; then
\* time.sleep(RETRY_DELAY) and the next iteration, or `break`
TcpRecordFailureRelease(t) ==
    /\ Th(t).kind = "tcp" /\ Th(t).pc = "record_failure_write"
    /\ LET et == Th(t).error_type IN
       /\ performance_data' = [performance_data EXCEPT
             !.tcp.failures[et] = Th(t).tmp + 1]
       /\ committed' = [committed EXCEPT ![et] = @ + 1]
       /\ threads' = [threads EXCEPT ![t] =
             [@ EXCEPT !.recorded[et] = @ + 1,
                       !.tmp = 0,
                       !.error_type = "none",
                       !.pc = IF et = "connections" THEN "loop"
                              ELSE "finally"]]
    /\ Release(t)
    /\ UNCHANGED <<mainVars, is_running, active_tests, serverVars>>

\* finally: if tcp_socket: tcp_socket.close()
\*          with self.sync_lock: self.active_tests -= 1   (the read)
TcpFinallyAcquire(t) ==
    /\ Th(t).kind = "tcp" /\ Th(t).pc = "finally"
    /\ Acquire(t)
    /\ threads' = [threads EXCEPT ![t] =
          [@ EXCEPT !.tcp_socket = IF @ = "None" THEN "None" ELSE "closed",
                    !.open_sockets = IF Th(t).tcp_socket = "None"
                                     THEN @ ELSE @ - 1,
                    !.tmp = active_tests,
                    !.pc = "active_dec_write"]]
    /\ UNCHANGED <<mainVars, is_running, active_tests, performance_data,
                   committed, serverVars>>

\* finally: with self.sync_lock: self.active_tests -= 1   (the write)
TcpFinallyRelease(t) ==
    /\ Th(t).kind = "tcp" /\ Th(t).pc = "active_dec_write"
    /\ active_tests' = Th(t).tmp - 1
    /\ Release(t)
    /\ threads' = [threads EXCEPT ![t] =
          [@ EXCEPT !.tmp = 0, !.bytes_received = 0, !.duration = 0,
                    !.pc = "done"]]
    /\ UNCHANGED <<mainVars, is_running, performance_data, committed, serverVars>>

TcpStep(t) ==
    \/ TcpLoop(t)
    \/ TcpActiveIncAcquire(t)
    \/ TcpActiveIncRelease(t)
    \/ TcpConnect(t)
    \/ TcpSend(t)
    \/ TcpTransferLoop(t)
    \/ TcpReceive(t)
    \/ TcpRecordSuccessAcquire(t)
    \/ TcpRecordSuccessRelease(t)
    \/ TcpRecordFailureAcquire(t)
    \/ TcpRecordFailureRelease(t)
    \/ TcpFinallyAcquire(t)
    \/ TcpFinallyRelease(t)


\* ------------------------------------------------------------------------
\* perform_udp_test  (src/Client.py 362-450)
\* ------------------------------------------------------------------------

\* the datagrams udp_socket.recvfrom can deliver: length, the unpacked
\* header fields, and nothing else that the client reads; both 64-bit
\* fields are at most segs
Packets(segs) ==
    [len : {HEADER_SIZE - 1, HEADER_SIZE},
     cookie : {protocol_cookie, OtherCookie},
     type : {REQUEST_TYPE, PAYLOAD_TYPE},
     total_segs : 0..segs,
     current_seg : 0..segs]

NoPacketInfo == <<>>

process_packet(packet_data) ==
    IF packet_data.len < HEADER_SIZE
    THEN NoPacketInfo
    ELSE IF packet_data.cookie # protocol_cookie
            \/ packet_data.type # PAYLOAD_TYPE
         THEN NoPacketInfo
         ELSE <<packet_data.total_segs, packet_data.current_seg>>

\* socket creation and udp_socket.sendto(test_request, ...); then
\* total_segments = None, received_segments = set(), last_packet = test_start
UdpStart(t) ==
    /\ Th(t).kind = "udp" /\ Th(t).pc = "start"
    /\ \E outcome \in {"ok", "error"} :
         threads' = [threads EXCEPT ![t] =
            IF outcome = "ok"
            THEN [@ EXCEPT !.total_segments = None,
                           !.received_segments = {},
                           !.idle = 0,
                           !.pc = "loop"]
            ELSE [@ EXCEPT !.pc = "error"]]
    /\ UNCHANGED <<mainVars, is_running, sync_lock, active_tests,
                   performance_data, committed, serverVars>>

\* time.time() - last_packet, in units of PACKET_TIMEOUT: idle counts the
\* passes of the loop since last_packet was set, each of which lasts up to
\* PACKET_TIMEOUT; limit of them make SOCKET_TIMEOUT
Tick(idle, limit) == Min(idle + 1, limit)

\* (time.time() - last_packet) < SOCKET_TIMEOUT
AlwaysActive(idle, limit) == TRUE

Active(idle, limit) == idle < limit

\* while (time.time() - last_packet) < SOCKET_TIMEOUT and self.is_running:
UdpLoop(t, limit) ==
    /\ Th(t).kind = "udp" /\ Th(t).pc = "loop"
    /\ threads' = [threads EXCEPT ![t] =
          IF Active(Th(t).idle, limit) /\ is_running
          THEN [@ EXCEPT !.pc = "select"]
          ELSE [@ EXCEPT !.pc = "after_loop"]]
    /\ UNCHANGED <<mainVars, is_running, sync_lock, active_tests,
                   performance_data, committed, serverVars>>

\* the first value of total_segs is kept: `if total_segments is None:`
KeepLatestTotal(total_segments, total_segs) == total_segs

KeepFirstTotal(total_segments, total_segs) ==
    IF total_segments = None THEN total_segs ELSE total_segments

\* `if not packet_info: continue` leaves last_packet as it was
DiscardAndRestart(r, limit) == [r EXCEPT !.idle = 0, !.pc = "loop"]

Discard(r, limit) == [r EXCEPT !.idle = Tick(@, limit), !.pc = "loop"]

\* select, recvfrom, process_packet, `if not packet_info: continue`,
\* total_segments and received_segments.add(current_seg).  The branches:
\* no socket ready after PACKET_TIMEOUT; recvfrom raises socket.timeout
\* after the SOCKET_TIMEOUT of udp_socket.settimeout, `break`; another
\* exception; a datagram
UdpReceive(t, segs, limit) ==
    /\ Th(t).kind = "udp" /\ Th(t).pc = "select"
    /\ \/ threads' = [threads EXCEPT ![t] =
             [@ EXCEPT !.idle = Tick(@, limit), !.pc = "loop"]]
       \/ threads' = [threads EXCEPT ![t] =
             [@ EXCEPT !.idle = limit, !.pc = "after_loop"]]
       \/ threads' = [threads EXCEPT ![t] =
             [@ EXCEPT !.idle = 0, !.pc = "error"]]
       \/ \E packet_info \in {process_packet(packet_data) :
                                   packet_data \in Packets(segs)} :
            /\ packet_info # NoPacketInfo =>
                   Len(Th(t).arrivals) < MaxPackets
            /\ threads' = [threads EXCEPT ![t] =
               IF packet_info = NoPacketInfo
               THEN Discard(@, limit)
               ELSE [@ EXCEPT
                       !.arrivals = Append(@, packet_info),
                       !.total_segments = KeepFirstTotal(@, packet_info[1]),
                       !.received_segments = @ \cup {packet_info[2]},
                       !.pc = "received_inc"]]
    /\ UNCHANGED <<mainVars, is_running, sync_lock, active_tests,
                   performance_data, committed, serverVars>>

\* with self.sync_lock: ...['packets']['received'] += 1    (the read)
UdpReceivedAcquire(t) ==
    /\ Th(t).kind = "udp" /\ Th(t).pc = "received_inc"
    /\ Acquire(t)
    /\ threads' = [threads EXCEPT ![t] =
          [@ EXCEPT !.tmp = performance_data.udp.packets.received,
                    !.pc = "received_inc_write"]]
    /\ UNCHANGED <<mainVars, is_running, active_tests, performance_data,
                   committed, serverVars>>

\* the write and the lock exit; last_packet = time.time();
\* if len(received_segments) == total_segments: break
UdpReceivedRelease(t) ==
    /\ Th(t).kind = "udp" /\ Th(t).pc = "received_inc_write"
    /\ performance_data' = [performance_data EXCEPT
          !.udp.packets.received = Th(t).tmp + 1]
    /\ committed' = [committed EXCEPT !.received = @ + 1]
    /\ Release(t)
    /\ threads' = [threads EXCEPT ![t] =
          [@ EXCEPT !.tmp = 0, !.recorded.received = @ + 1,
                    !.idle = 0, !.pc =
              IF Cardinality(Th(t).received_segments) = Th(t).total_segments
              THEN "after_loop" ELSE "loop"]]
    /\ UNCHANGED <<mainVars, is_running, active_tests, serverVars>>

\* `if total_segments:` is false for None and for 0
Truthy(total_segments) == total_segments # None /\ total_segments # 0

\* lost_packets = total_segments - len(received_segments)
Lost(total_segments, received_segments) ==
    total_segments - Cardinality(received_segments)

\* loss_percentage = (lost_packets / total_segments) * 100, as the
\* fraction <<numerator, denominator>>
Percentage(lost_packets, total_segments) ==
    <<lost_packets * 100, total_segments>>

\* test_duration = time.time() - test_start; `if total_segments:` with
\* lost_packets and transfer_speed (a division by test_duration)
UdpAfterLoop(t) ==
    /\ Th(t).kind = "udp" /\ Th(t).pc = "after_loop"
    /\ \E d \in Durations :
         threads' = [threads EXCEPT ![t] =
            IF Truthy(Th(t).total_segments)
            THEN IF d = 0
                 THEN [@ EXCEPT !.duration = d, !.idle = 0, !.pc = "error"]
                 ELSE [@ EXCEPT
                         !.duration = d, !.idle = 0,
                         !.lost_packets = Lost(Th(t).total_segments,
                                               Th(t).received_segments),
                         !.loss_percentage =
                             Percentage(Lost(Th(t).total_segments,
                                             Th(t).received_segments),
                                        Th(t).total_segments),
                         !.pc = "record_udp"]
            ELSE [@ EXCEPT !.duration = d, !.idle = 0, !.pc = "failed"]]
    /\ UNCHANGED <<mainVars, is_running, sync_lock, active_tests,
                   performance_data, committed, serverVars>>

\* with self.sync_lock: timings.append(test_duration), read of lost
UdpRecordAcquire(t) ==
    /\ Th(t).kind = "udp" /\ Th(t).pc = "record_udp"
    /\ Acquire(t)
    /\ performance_data' = [performance_data EXCEPT
          !.udp.timings = Append(@, Th(t).duration)]
    /\ committed' = [committed EXCEPT !.udp_timings = @ + 1]
    /\ threads' = [threads EXCEPT ![t] =
          [@ EXCEPT !.tmp = performance_data.udp.packets.lost,
                    !.pc = "record_udp_write"]]
    /\ UNCHANGED <<mainVars, is_running, active_tests, serverVars>>

\* ...['packets']['lost'] += lost_packets  (the write), lock exit, print
UdpRecordRelease(t) ==
    /\ Th(t).kind = "udp" /\ Th(t).pc = "record_udp_write"
    /\ performance_data' = [performance_data EXCEPT
          !.udp.packets.lost = Th(t).tmp + Th(t).lost_packets]
    /\ committed' = [committed EXCEPT !.lost = @ + Th(t).lost_packets]
    /\ Release(t)
    /\ threads' = [threads EXCEPT ![t] =
          [@ EXCEPT !.tmp = 0,
                    !.recorded.timings = @ + 1,
                    !.recorded.lost = @ + Th(t).lost_packets,
                    !.pc = "finished"]]
    /\ UNCHANGED <<mainVars, is_running, active_tests, serverVars>>

\* the print of the outcome (finished, failed, or `except Exception`) and
\* finally: udp_socket.close()
UdpFinally(t) ==
    /\ Th(t).kind = "udp" /\ Th(t).pc \in {"finished", "failed", "error"}
    /\ threads' = [threads EXCEPT ![t] =
          [@ EXCEPT !.outcome = Th(t).pc,
                    !.total_segments = None, !.received_segments = {},
                    !.lost_packets = 0, !.duration = 0,
                    !.loss_percentage = <<0, 1>>, !.arrivals = <<>>,
                    !.pc = "done"]]
    /\ UNCHANGED <<mainVars, is_running, sync_lock, active_tests,
                   performance_data, committed, serverVars>>

UdpStep(t, segs, limit) ==
    \/ UdpStart(t)
    \/ UdpLoop(t, limit)
    \/ UdpReceive(t, segs, limit)
    \/ UdpReceivedAcquire(t)
    \/ UdpReceivedRelease(t)
    \/ UdpAfterLoop(t)
    \/ UdpRecordAcquire(t)
    \/ UdpRecordRelease(t)
    \/ UdpFinally(t)


\* ------------------------------------------------------------------------
\* the main thread: initialize_client, find_available_server,
\* execute_performance_tests  (src/Client.py 67-260)
\* ------------------------------------------------------------------------
FreeThreads == {t \in Threads : threads[t].kind = "none"}

workerVars == <<threads, active_tests, serverVars>>

\* the datagrams self.udp_socket.recvfrom can deliver during discovery:
\* the length, the sender's address and the fields struct.unpack('!IbHH')
\* reads
Datagrams(sc) ==
    [len : {EXPECTED_MSG_SIZE - 1, EXPECTED_MSG_SIZE},
     cookie : {protocol_cookie, OtherCookie},
     type : {SERVER_MSG_TYPE, REQUEST_TYPE},
     ip : sc.ips,
     udp_port : sc.ports,
     tcp_port : sc.ports]

NoOffer == <<>>

\* (server_address[0], server_udp_port, server_tcp_port)
Offer(server_message) ==
    <<server_message.ip, server_message.udp_port, server_message.tcp_port>>

\* the tests of lines 125-130 with the length test left out
IsServerOfferAnyLength(server_message) ==
    /\ server_message.cookie = protocol_cookie
    /\ server_message.type = SERVER_MSG_TYPE

\* if len(server_message) == EXPECTED_MSG_SIZE: ... if (received_cookie ==
\* self.protocol_cookie and message_type == SERVER_MSG_TYPE):
IsServerOffer(server_message) ==
    /\ server_message.len = EXPECTED_MSG_SIZE
    /\ server_message.cookie = protocol_cookie
    /\ server_message.type = SERVER_MSG_TYPE

\* [s[0] for s in discovered_servers]
KnownHosts(discovered) == {discovered[i][1] : i \in 1..Len(discovered)}

\* the body of `if socket_ready:`: the offer is appended unless its host is
\* already in the list
ReceiveOffer(discovered, server_message) ==
    IF IsServerOffer(server_message)
       /\ server_message.ip \notin KnownHosts(discovered)
    THEN Append(discovered, Offer(server_message))
    ELSE discovered

\* while self.is_running: self.file_size = self.get_file_size();
\* self.state = SERVER_DISCOVERY; self.initialize_udp_socket()
\* (a failed bind is caught by `except Exception` and the loop goes on);
\* then the first lines of find_available_server
MainLoop(sc) ==
    /\ mainpc = "main_loop"
    /\ IF is_running
       THEN /\ sessions < sc.sessions
            /\ \E size \in sc.sizes, bound \in BOOLEAN :
                 /\ file_size' = size
                 /\ state' = "SERVER_DISCOVERY"
                 /\ mainpc' = IF bound THEN "discovery" ELSE "main_loop"
       ELSE /\ mainpc' = "cleanup"
            /\ UNCHANGED <<file_size, state>>
    /\ discovered_servers' = <<>>
    /\ window' = <<>>
    /\ first_offer' = NoOffer
    /\ UNCHANGED <<is_running, sync_lock, performance_data, sessions, counts,
                   test_num, test_threads, join_idx, deadline_passed,
                   printed, reported, committed, workerVars, server_args>>

\* the loop of find_available_server, lines 114-142: the loop condition
\* (expired says that TOTAL_DISCOVERY_TIME has passed) and one iteration:
\* select finds nothing or raises, recvfrom raises, or a datagram arrives
DiscoveryLoop(sc) ==
    /\ mainpc = "discovery"
    /\ \E expired \in BOOLEAN :
         IF is_running /\ state = "SERVER_DISCOVERY" /\ ~expired
         THEN \/ UNCHANGED <<mainpc, discovered_servers, window, first_offer>>
              \/ /\ Len(window) < sc.window
                 /\ \E server_message \in Datagrams(sc) :
                      /\ discovered_servers' =
                            ReceiveOffer(discovered_servers, server_message)
                      /\ window' = Append(window, server_message)
                      /\ first_offer' =
                            IF first_offer = NoOffer
                               /\ server_message.len = 9
                               /\ server_message.cookie = <<171, 205, 220, 186>>
                               /\ server_message.type = 2
                            THEN Offer(server_message)
                            ELSE first_offer
                 /\ UNCHANGED mainpc
         ELSE /\ mainpc' = "choose"
              /\ UNCHANGED <<discovered_servers, window, first_offer>>
    /\ UNCHANGED <<state, is_running, file_size, sync_lock, performance_data,
                   sessions, counts, test_num, test_threads, join_idx,
                   deadline_passed, printed, reported, committed, workerVars,
                   server_args>>

\* server_host, udp_port, tcp_port = discovered_servers[0], read at the last
\* entry instead
ChooseLastServer(discovered) == discovered[Len(discovered)]

\* server_host, udp_port, tcp_port = discovered_servers[0]
ChooseServer(discovered) == discovered[1]

\* find_available_server, lines 144-154: `if discovered_servers:` enters
\* the test session, else the call returns to the main loop
FindAvailableServer ==
    /\ mainpc = "choose"
    /\ window' = <<>>
    /\ IF discovered_servers # <<>>
       THEN /\ server_args' = ChooseServer(discovered_servers)
            /\ state' = "PERFORMANCE_TEST"
            /\ sessions' = sessions + 1
            /\ mainpc' = "get_test_counts"
            /\ UNCHANGED <<discovered_servers, first_offer>>
       ELSE /\ mainpc' = "main_loop"
            /\ discovered_servers' = <<>>
            /\ first_offer' = NoOffer
            /\ UNCHANGED <<state, sessions, server_args>>
    /\ UNCHANGED <<is_running, file_size, sync_lock, performance_data,
                   counts, test_num, test_threads, join_idx,
                   deadline_passed, printed, reported, committed, workerVars>>

\* get_test_counts: a negative count makes the pair (1, 1)
get_test_counts(tcp_count, udp_count) ==
    IF tcp_count < 0 \/ udp_count < 0
    THEN [tcp |-> 1, udp |-> 1]
    ELSE [tcp |-> tcp_count, udp |-> udp_count]

\* num_tcp_tests, num_udp_tests = get_test_counts(); sc.tcp and sc.udp
\* are the numbers the user may type, sc.threads the number of threads the
\* scenario may start in all
GetTestCounts(sc) ==
    /\ mainpc = "get_test_counts"
    /\ \E tcp_count \in sc.tcp, udp_count \in sc.udp :
         LET c == get_test_counts(tcp_count, udp_count) IN
         /\ c.tcp + c.udp <= sc.threads - Cardinality(Threads \ FreeThreads)
         /\ counts' = c
    /\ mainpc' = "reset"
    /\ UNCHANGED <<state, is_running, file_size, sync_lock, performance_data,
                   sessions, test_num, test_threads, join_idx,
                   deadline_passed, printed, reported, committed, workerVars, discoveryVars>>

\* initialize_performance_data: lock entry
ResetAcquire ==
    /\ mainpc = "reset"
    /\ Acquire(MainThread)
    /\ mainpc' = "reset_write"
    /\ UNCHANGED <<state, is_running, file_size, performance_data, sessions,
                   counts, test_num, test_threads, join_idx, deadline_passed,
                   printed, reported, committed, workerVars, discoveryVars>>

\* initialize_performance_data: the assignment and the lock exit;
\* test_threads = []
ResetRelease ==
    /\ mainpc = "reset_write"
    /\ performance_data' = EmptyPerformanceData
    /\ committed' = EmptyCommitted
    /\ printed' = FALSE
    /\ reported' = {}
    /\ Release(MainThread)
    /\ test_threads' = <<>>
    /\ test_num' = 0
    /\ mainpc' = "launch_tcp"
    /\ UNCHANGED <<state, is_running, file_size, sessions, counts, join_idx,
                   deadline_passed, workerVars, discoveryVars>>

\* the head of one iteration without `if not self.is_running: break`
LaunchUnchecked(test_type, next_pc) ==
    /\ mainpc = "launch_" \o test_type
    /\ IF test_num < counts[test_type]
       THEN /\ mainpc' = "start_" \o test_type
            /\ UNCHANGED <<test_num, join_idx, deadline_passed>>
       ELSE /\ mainpc' = next_pc
            /\ test_num' = 0
            /\ join_idx' = 1
            /\ deadline_passed' = FALSE
    /\ UNCHANGED <<state, is_running, file_size, sync_lock, performance_data,
                   sessions, counts, test_threads, printed, reported, committed,
                   workerVars, discoveryVars>>

\* the head of one iteration of the loop of launch_test_threads:
\* `for test_num in range(count): if not self.is_running: break`
Launch(test_type, next_pc) ==
    /\ mainpc = "launch_" \o test_type
    /\ IF test_num < counts[test_type] /\ is_running
       THEN /\ mainpc' = "start_" \o test_type
            /\ UNCHANGED <<test_num, join_idx, deadline_passed>>
       ELSE /\ mainpc' = next_pc
            /\ test_num' = 0
            /\ join_idx' = 1
            /\ deadline_passed' = FALSE
    /\ UNCHANGED <<state, is_running, file_size, sync_lock, performance_data,
                   sessions, counts, test_threads, printed, reported, committed,
                   workerVars, discoveryVars>>

LaunchTcp == Launch("tcp", "launch_udp")

LaunchUdp == Launch("udp", "join")

\* the rest of the iteration without threads.append(thread)
StartUnlisted(test_type) ==
    /\ mainpc = "start_" \o test_type
    /\ LET t == CHOOSE x \in FreeThreads : \A y \in FreeThreads : x <= y IN
       /\ threads' = [threads EXCEPT ![t] =
             [NotStarted EXCEPT
                 !.kind = test_type,
                 !.server_host = server_args[1],
                 !.server_port = IF test_type = "tcp" THEN server_args[3]
                                 ELSE server_args[2],
                 !.started_running = is_running,
                 !.pc = IF test_type = "tcp" THEN "loop" ELSE "start"]]
       /\ test_threads' = test_threads
    /\ test_num' = test_num + 1
    /\ mainpc' = "launch_" \o test_type
    /\ UNCHANGED <<state, is_running, file_size, sync_lock, performance_data,
                   sessions, counts, join_idx, deadline_passed, printed, reported,
                   committed, active_tests, serverVars, discoveryVars>>

\* the rest of the iteration: threading.Thread(target=target_func,
\* args=(server_host, port, test_num + 1)), threads.append(thread),
\* thread.start()
StartThread(test_type) ==
    /\ mainpc = "start_" \o test_type
    /\ LET t == CHOOSE x \in FreeThreads : \A y \in FreeThreads : x <= y IN
       /\ threads' = [threads EXCEPT ![t] =
             [NotStarted EXCEPT
                 !.kind = test_type,
                 !.server_host = server_args[1],
                 !.server_port = IF test_type = "tcp" THEN server_args[3]
                                 ELSE server_args[2],
                 !.started_running = is_running,
                 !.pc = IF test_type = "tcp" THEN "loop" ELSE "start"]]
       /\ test_threads' = Append(test_threads, t)
    /\ test_num' = test_num + 1
    /\ mainpc' = "launch_" \o test_type
    /\ UNCHANGED <<state, is_running, file_size, sync_lock, performance_data,
                   sessions, counts, join_idx, deadline_passed, printed, reported,
                   committed, active_tests, serverVars, discoveryVars>>

StartTcpThread == StartThread("tcp")

StartUdpThread == StartThread("udp")

\* thread.join(timeout=remaining_time) returns because the thread ended
JoinFinished ==
    /\ mainpc = "join"
    /\ join_idx <= Len(test_threads)
    /\ threads[test_threads[join_idx]].pc = "done"
    /\ join_idx' = join_idx + 1
    /\ UNCHANGED <<state, is_running, file_size, sync_lock, performance_data,
                   mainpc, sessions, counts, test_num, test_threads,
                   deadline_passed, printed, reported, committed, workerVars, discoveryVars>>

\* thread.join() with no timeout returns when the thread has ended
JoinWithoutTimeout ==
    /\ mainpc = "join"
    /\ join_idx <= Len(test_threads)
    /\ threads[test_threads[join_idx]].pc = "done"
    /\ join_idx' = join_idx + 1
    /\ UNCHANGED <<state, is_running, file_size, sync_lock, performance_data,
                   mainpc, sessions, counts, test_num, test_threads,
                   deadline_passed, printed, reported, committed, workerVars,
                   discoveryVars>>

\* thread.join(timeout=remaining_time) returns at the deadline with the
\* thread alive: the warning is printed and the loop goes on
JoinTimeout ==
    /\ mainpc = "join"
    /\ join_idx <= Len(test_threads)
    /\ threads[test_threads[join_idx]].pc # "done"
    /\ deadline_passed' = TRUE
    /\ join_idx' = join_idx + 1
    /\ UNCHANGED <<state, is_running, file_size, sync_lock, performance_data,
                   mainpc, sessions, counts, test_num, test_threads,
                   printed, reported, committed, workerVars, discoveryVars>>

\* display_test_results: lock entry
DisplayAcquire ==
    /\ mainpc = "join"
    /\ join_idx > Len(test_threads)
    /\ Acquire(MainThread)
    /\ mainpc' = "display"
    /\ deadline_passed' = FALSE
    /\ UNCHANGED <<state, is_running, file_size, performance_data, sessions,
                   counts, test_num, test_threads, join_idx,
                   printed, reported, committed, workerVars, discoveryVars>>

\* display_tcp_metrics: every line of the TCP block, the failure counts
\* included, is printed inside `if tcp_data['timings']:`
display_tcp_metrics(tcp_data) ==
    IF tcp_data.timings # <<>> THEN {"tcp"} ELSE {}

\* display_udp_metrics: the UDP block is printed inside
\* `if udp_data['timings']:`
display_udp_metrics(udp_data) ==
    IF udp_data.timings # <<>> THEN {"udp"} ELSE {}

\* display_test_results: the metrics are printed, lock exit
DisplayRelease ==
    /\ mainpc = "display"
    /\ printed' = TRUE
    /\ reported' = display_tcp_metrics(performance_data.tcp)
                    \cup display_udp_metrics(performance_data.udp)
    /\ Release(MainThread)
    /\ mainpc' = "finally"
    /\ UNCHANGED <<state, is_running, file_size, performance_data, sessions,
                   counts, test_num, test_threads, join_idx, deadline_passed,
                   committed, workerVars, discoveryVars>>

\* the positions of the main thread inside the `try` of
\* execute_performance_tests
SessionPcs ==
    {"get_test_counts", "reset", "reset_write", "launch_tcp", "start_tcp",
     "launch_udp", "start_udp", "join", "display"}

\* a block entered with acquire() and left by an exception before its
\* release(): the lock stays with the thread
WithExitHeld(t) == sync_lock' = sync_lock

\* an exception passing through `with self.sync_lock:`: the exit of the
\* `with` releases the lock the thread holds; outside a block nothing is held
WithExit(t) == sync_lock' = IF sync_lock = t THEN Unlocked ELSE sync_lock

\* an exception raised inside the `try` (input() or thread.start() raising,
\* ...): a `with self.sync_lock:` block is left, `except Exception` prints
SessionRaise ==
    /\ mainpc \in SessionPcs
    /\ mainpc' = "finally"
    /\ WithExit(MainThread)
    /\ test_num' = 0
    /\ deadline_passed' = FALSE
    /\ UNCHANGED <<state, is_running, file_size, performance_data, sessions,
                   counts, test_threads, join_idx, printed, reported, committed,
                   workerVars, discoveryVars>>

\* the state the client starts in
FinallyStateInitial == "INITIALIZATION"

\* finally: self.state = ClientState.SERVER_DISCOVERY
FinallyState == "SERVER_DISCOVERY"

\* the `finally` of execute_performance_tests; the calls return to the
\* loop of initialize_client and their locals are gone
SessionFinally ==
    /\ mainpc = "finally"
    /\ state' = FinallyState
    /\ mainpc' = "main_loop"
    /\ counts' = [tcp |-> 0, udp |-> 0]
    /\ test_threads' = <<>>
    /\ join_idx' = 1
    /\ discovered_servers' = <<>>
    /\ first_offer' = NoOffer
    /\ server_args' = NoOffer
    /\ UNCHANGED <<is_running, file_size, sync_lock, performance_data,
                   sessions, test_num, deadline_passed, printed, reported, committed,
                   workerVars, window>>

\* cleanup: finally: self.is_running = False
Cleanup ==
    /\ mainpc = "cleanup"
    /\ is_running' = FALSE
    /\ mainpc' = "exit"
    /\ UNCHANGED <<state, file_size, sync_lock, performance_data, sessions,
                   counts, test_num, test_threads, join_idx, deadline_passed,
                   printed, reported, committed, workerVars, discoveryVars>>

\* handle_shutdown: self.is_running = False
HandleShutdown ==
    /\ is_running
    /\ is_running' = FALSE
    /\ UNCHANGED <<mainVars, sync_lock, performance_data, committed,
                   workerVars>>

MainStep(sc) ==
    \/ MainLoop(sc)
    \/ DiscoveryLoop(sc)
    \/ FindAvailableServer
    \/ GetTestCounts(sc)
    \/ ResetAcquire
    \/ ResetRelease
    \/ LaunchTcp
    \/ StartTcpThread
    \/ LaunchUdp
    \/ StartUdpThread
    \/ JoinFinished
    \/ JoinTimeout
    \/ DisplayAcquire
    \/ DisplayRelease
    \/ SessionRaise
    \/ SessionFinally
    \/ Cleanup
    \/ HandleShutdown

\* ------------------------------------------------------------------------
\* the wire codec  (src/general.py 19-99).  A buffer is a sequence of bytes;
\* an integer field is an integer of the checker, so that the values of a
\* 64-bit field stay below 2^31
\* ------------------------------------------------------------------------

\* the bytes of an unsigned field in the order of ">" and "!": most
\* significant first
RECURSIVE BigEndian(_, _)
BigEndian(value, width) ==
    IF width = 0 THEN <<>>
    ELSE Append(BigEndian(value \div 256, width - 1), value % 256)

\* the unsigned value of bytes read most significant first
RECURSIVE FromBigEndian(_)
FromBigEndian(bytes) ==
    IF bytes = <<>> THEN 0
    ELSE FromBigEndian(SubSeq(bytes, 1, Len(bytes) - 1)) * 256
            + bytes[Len(bytes)]

\* MESSAGES_FORMATS: a format is the widths of its fields, H = 2 and Q = 8
MESSAGES_FORMATS ==
    [t \in {OFFER_MESSAGE_TYPE, REQUEST_MESSAGE_TYPE, PAYLOAD_MESSAGE_TYPE} |->
        CASE t = OFFER_MESSAGE_TYPE -> <<2, 2>>
          [] t = REQUEST_MESSAGE_TYPE -> <<8>>
          [] OTHER -> <<8, 8>>]

\* struct.calcsize
RECURSIVE calcsize(_)
calcsize(format) ==
    IF format = <<>> THEN 0 ELSE Head(format) + calcsize(Tail(format))

RECURSIVE PackFields(_, _)
PackFields(format, args) ==
    IF format = <<>> THEN <<>>
    ELSE BigEndian(Head(args), Head(format))
            \o PackFields(Tail(format), Tail(args))

\* struct.pack(format, *args) for as many arguments as the format has
\* fields
struct_pack_little(format, args) ==
    LET bytes == PackFields(format, args) IN
    [i \in 1..Len(bytes) |-> bytes[Len(bytes) + 1 - i]]

struct_pack(format, args) == PackFields(format, args)

\* struct.unpack(format, bytes) for a buffer of calcsize(format) bytes
RECURSIVE struct_unpack(_, _)
struct_unpack(format, bytes) ==
    IF format = <<>> THEN <<>>
    ELSE <<FromBigEndian(SubSeq(bytes, 1, Head(format)))>>
            \o struct_unpack(Tail(format),
                             SubSeq(bytes, Head(format) + 1, Len(bytes)))

\* what a call of the codec gives: a value, or ValueError raised
Ok(v) == [raised |-> "none", value |-> v]

ValueError == [raised |-> "ValueError", value |-> <<>>]

\* build_header: struct.pack("4sB", MAGIC_COOKIE, message_type); a type
\* that is no unsigned byte makes struct.error, raised as ValueError
build_header(message_type) ==
    IF message_type \in 0..255
    THEN Ok(MAGIC_COOKIE \o <<message_type>>)
    ELSE ValueError

\* build_message: the type must have a format, struct.error (here: a
\* wrong number of arguments) is raised as ValueError
build_message(message_type, args, payload) ==
    IF message_type \notin DOMAIN MESSAGES_FORMATS
    THEN ValueError
    ELSE IF Len(args) # Len(MESSAGES_FORMATS[message_type])
         THEN ValueError
         ELSE LET body == struct_pack(MESSAGES_FORMATS[message_type], args)
                             \o payload
                  header == build_header(message_type) IN
              IF header.raised # "none" THEN header
              ELSE Ok(header.value \o body)

\* parse_header without the test of the magic cookie
parse_header_any_cookie(data) ==
    IF Len(data) < GENERAL_HEADER_SIZE
    THEN ValueError
    ELSE Ok(data[GENERAL_HEADER_SIZE])

\* parse_header: the length test, struct.unpack("4sB", data[:HEADER_SIZE])
\* and the test of the magic cookie
parse_header(data) ==
    IF Len(data) < GENERAL_HEADER_SIZE
    THEN ValueError
    ELSE LET magic_cookie == SubSeq(data, 1, GENERAL_HEADER_SIZE - 1)
             message_type == data[GENERAL_HEADER_SIZE] IN
         IF magic_cookie # MAGIC_COOKIE THEN ValueError
         ELSE Ok(message_type)

\* parse_message
parse_message(data) ==
    LET header == parse_header(data) IN
    IF header.raised # "none" THEN header
    ELSE LET message_type == header.value IN
         IF message_type \in DOMAIN MESSAGES_FORMATS
         THEN LET body_format == MESSAGES_FORMATS[message_type]
                  body_size == calcsize(body_format)
                  body_data == SubSeq(data, GENERAL_HEADER_SIZE + 1, Len(data))
              IN
              IF Len(body_data) < body_size THEN ValueError
              ELSE LET parsed_body ==
                          struct_unpack(body_format,
                                        SubSeq(body_data, 1, body_size))
                       payload ==
                          SubSeq(body_data, body_size + 1, Len(body_data))
                   IN
                   IF message_type = PAYLOAD_MESSAGE_TYPE
                   THEN Ok(<<message_type, Append(parsed_body, payload)>>)
                   ELSE Ok(<<message_type, parsed_body>>)
         ELSE ValueError

\* parse_request_message
parse_request_message(message) ==
    LET parsed == parse_message(message) IN
    IF parsed.raised # "none" THEN parsed
    ELSE IF parsed.value[1] # REQUEST_MESSAGE_TYPE THEN ValueError
         ELSE Ok(parsed.value[2][1])

\* the arguments the callers give to build_message: ports, 64-bit values
\* and payloads at the ends and in the middle of their ranges, a type
\* without format and an Offer with one argument
Ports16 == {0, 1, 255, 256, 65535}

Values64 == {0, 1, 255, 256, 65536, 2147483647}

PayloadBytes == {<<>>, <<7>>, <<0, 255>>}

Message(message_type, args, payload) ==
    [type |-> message_type, args |-> args, payload |-> payload]

Messages ==
    {Message(OFFER_MESSAGE_TYPE, <<u, t>>, <<>>) : u \in Ports16, t \in Ports16}
    \cup {Message(REQUEST_MESSAGE_TYPE, <<f>>, <<>>) : f \in Values64}
    \cup {Message(PAYLOAD_MESSAGE_TYPE, <<n, i>>, p) :
              n \in Values64, i \in Values64, p \in PayloadBytes}
    \cup {Message(PAYLOAD_MESSAGE_TYPE + 1, <<>>, <<>>),
          Message(OFFER_MESSAGE_TYPE, <<1>>, <<>>)}

NoCodec ==
    [pc |-> "idle", message |-> Message(0, <<>>, <<>>), data |-> <<>>,
     damage |-> "none", result |-> Ok(<<>>)]

\* the type tags that have no format
UnknownTypes == {0, 1, PAYLOAD_MESSAGE_TYPE + 1, 255}

\* what a network or a faulty peer makes of a buffer: a proper prefix
\* (truncated when it cuts the header or the body of the kind, shortened
\* when it cuts only the payload), a changed byte of the magic cookie, a
\* type tag without format
Damages(data) ==
    LET whole == GENERAL_HEADER_SIZE
                    + calcsize(MESSAGES_FORMATS[data[GENERAL_HEADER_SIZE]]) IN
    {[kind |-> IF n < whole THEN "truncated" ELSE "shortened",
      data |-> SubSeq(data, 1, n)] : n \in 0..(Len(data) - 1)}
    \cup {[kind |-> "cookie", data |-> [data EXCEPT ![i] = (@ + 1) % 256]] :
              i \in 1..(GENERAL_HEADER_SIZE - 1)}
    \cup {[kind |-> "type", data |-> [data EXCEPT ![GENERAL_HEADER_SIZE] = u]] :
              u \in UnknownTypes}

\* build_message on the arguments
CodecBuild ==
    /\ codec.pc = "input"
    /\ LET built == build_message(codec.message.type, codec.message.args,
                                  codec.message.payload) IN
       codec' = IF built.raised = "none"
                THEN [codec EXCEPT !.data = built.value, !.pc = "built"]
                ELSE [codec EXCEPT !.result = built, !.pc = "build_failed"]
    /\ UNCHANGED <<clientVars, srv, server, conn>>

\* the buffer is damaged on its way
CodecDamage ==
    /\ codec.pc = "built"
    /\ \E d \in Damages(codec.data) :
         codec' = [codec EXCEPT !.data = d.data, !.damage = d.kind,
                                !.pc = "damaged"]
    /\ UNCHANGED <<clientVars, srv, server, conn>>

\* parse_message on the buffer
CodecParse ==
    /\ codec.pc \in {"built", "damaged"}
    /\ codec' = [codec EXCEPT !.result = parse_message(codec.data),
                              !.pc = "parsed"]
    /\ UNCHANGED <<clientVars, srv, server, conn>>

\* parse_request_message on the buffer
CodecParseRequest ==
    /\ codec.pc \in {"built", "damaged"}
    /\ codec' = [codec EXCEPT !.result = parse_request_message(codec.data),
                              !.pc = "parsed_request"]
    /\ UNCHANGED <<clientVars, srv, server, conn>>

\* ------------------------------------------------------------------------
\* Server.start, _initialize_sockets, _broadcast_offer, _handle_requests,
\* stop_server  (src/Server.py 71-246, 363-375)
\* ------------------------------------------------------------------------

\* the Server object after Server.__init__; pc is the position of the
\* thread that calls start, broadcast that of the broadcast thread.
\* History: start_error is the start-up step that failed, entered says
\* that the loop of _handle_requests was entered, signalled that the
\* signal handler has called stop_server, dispatched counts the datagrams
\* and connections handed to a worker, rejected says that a worker has
\* ended on a request that was not valid
ServerObject(tcp_port, udp_port) ==
    [pc |-> "init", is_active |-> FALSE, udp_socket |-> "None",
     tcp_socket |-> "None", monitored_sockets |-> {}, broadcast |-> "none",
     start_error |-> "none", entered |-> FALSE, signalled |-> FALSE,
     dispatched |-> 0, rejected |-> FALSE,
     connection_tcp_port |-> tcp_port, data_udp_port |-> udp_port,
     offer_socket |-> "None", offer_message |-> <<>>, last_sent |-> <<>>,
     recovery |-> "none"]

\* the ends of random.randint(20000, 65000)
ServerPorts == {20000, 65000}

ServerInit == ServerObject(20000, 65000)

\* socket_to_close.close() on a socket attribute that was assigned
CloseSocket(sock) == IF sock = "None" THEN "None" ELSE "closed"

\* stop_server: is_active = False and both sockets closed (an attribute
\* that was never assigned raises AttributeError, which is caught)
stop_server(s) ==
    [s EXCEPT !.is_active = FALSE,
              !.udp_socket = CloseSocket(@),
              !.tcp_socket = CloseSocket(@)]

\* start: self.is_active = True
ServerStart ==
    /\ server.pc = "init"
    /\ server' = [server EXCEPT !.is_active = TRUE,
                                !.pc = "initialize_sockets"]
    /\ UNCHANGED <<clientVars, codec, srv, conn>>

\* _initialize_sockets: the UDP socket is bound, then the TCP socket is
\* bound and listens; failed names the socket whose bind or listen raises
InitializeSockets ==
    /\ server.pc = "initialize_sockets"
    /\ \E failed \in {"none", "udp", "tcp"} :
         server' =
            CASE failed = "none" ->
                    [server EXCEPT !.udp_socket = "open",
                                   !.tcp_socket = "open",
                                   !.pc = "start_broadcast_thread"]
              [] failed = "udp" ->
                    [server EXCEPT !.start_error = "udp",
                                   !.pc = "start_except"]
              [] OTHER ->
                    [server EXCEPT !.udp_socket = "open",
                                   !.start_error = "tcp",
                                   !.pc = "start_except"]
    /\ UNCHANGED <<clientVars, codec, srv, conn>>

\* _start_broadcast_thread and _print_server_info (gethostbyname may raise)
StartBroadcastThread ==
    /\ server.pc = "start_broadcast_thread"
    /\ \E outcome \in {"ok", "error"} :
         server' =
            IF outcome = "ok"
            THEN [server EXCEPT !.broadcast = "start",
                                !.pc = "handle_requests_entry"]
            ELSE [server EXCEPT !.broadcast = "start",
                                !.start_error = "info",
                                !.pc = "start_except"]
    /\ UNCHANGED <<clientVars, codec, srv, conn>>

\* _broadcast_offer before its loop: the socket, SO_BROADCAST and
\* offer_message = struct.pack('!IbHH', validator, massage_offer,
\* data_udp_port, connection_tcp_port).  When socket() raises, offer_socket
\* is unbound and the close of the finally raises; when setsockopt raises,
\* the finally closes the socket
BroadcastSetup ==
    /\ server.broadcast = "start"
    /\ \E outcome \in {"ok", "no_socket", "error"} :
         server' =
            CASE outcome = "ok" ->
                    [server EXCEPT
                        !.offer_socket = "open",
                        !.offer_message =
                            validator \o <<massage_offer>>
                              \o BigEndian(server.data_udp_port, 2)
                              \o BigEndian(server.connection_tcp_port, 2),
                        !.broadcast = "loop"]
              [] outcome = "no_socket" ->
                    [server EXCEPT !.broadcast = "failed"]
              [] OTHER ->
                    [server EXCEPT !.offer_socket = "closed",
                                   !.broadcast = "failed"]
    /\ UNCHANGED <<clientVars, codec, srv, conn>>

\* `while self.is_active:`, and after the loop finally: offer_socket.close()
BroadcastLoop ==
    /\ server.broadcast = "loop"
    /\ server' = IF server.is_active
                 THEN [server EXCEPT !.broadcast = "send"]
                 ELSE [server EXCEPT !.offer_socket = "closed",
                                     !.broadcast = "done"]
    /\ UNCHANGED <<clientVars, codec, srv, conn>>

\* offer_socket.sendto(offer_message, ...) has sent, then time.sleep(1);
\* recovery is the history of the sends: a failed one, then a sent one
Sent(s) ==
    [s EXCEPT !.last_sent = s.offer_message,
              !.recovery = IF @ = "failed" THEN "recovered" ELSE @,
              !.broadcast = "loop"]

\* a handler that ends the loop at a failed sendto
SendFailedEnds(s) ==
    [s EXCEPT !.recovery = IF @ = "none" THEN "failed" ELSE @,
              !.offer_socket = "closed",
              !.broadcast = "done"]

\* except Exception inside the loop: the error is printed and the loop
\* goes on
SendFailed(s) ==
    [s EXCEPT !.recovery = IF @ = "none" THEN "failed" ELSE @,
              !.broadcast = "loop"]

\* one pass of the loop of _broadcast_offer
BroadcastSend ==
    /\ server.broadcast = "send"
    /\ \E outcome \in {"ok", "error"} :
         server' = IF outcome = "ok" THEN Sent(server)
                   ELSE SendFailed(server)
    /\ UNCHANGED <<clientVars, codec, srv, conn>>

\* the broadcast thread, _broadcast_offer
BroadcastOffer ==
    \/ BroadcastSetup
    \/ BroadcastLoop
    \/ BroadcastSend

\* _handle_requests before its loop: setblocking(False) on both sockets
\* raises on a closed socket, which `except Exception` of start catches
HandleRequestsEntry ==
    /\ server.pc = "handle_requests_entry"
    /\ server' =
         IF server.udp_socket = "open" /\ server.tcp_socket = "open"
         THEN [server EXCEPT !.monitored_sockets = {"udp", "tcp"},
                             !.entered = TRUE,
                             !.pc = "handle_requests"]
         ELSE [server EXCEPT !.pc = "start_except"]
    /\ UNCHANGED <<clientVars, codec, srv, conn>>

\* while self.is_active:  (the end of the loop returns from start)
HandleRequests ==
    /\ server.pc = "handle_requests"
    /\ server' = [server EXCEPT !.pc =
                     IF server.is_active THEN "select" ELSE "returned"]
    /\ UNCHANGED <<clientVars, codec, srv, conn>>

\* the file object behind a name of monitored_sockets
SocketOf(s, name) == IF name = "udp" THEN s.udp_socket ELSE s.tcp_socket

\* select.select raises on a closed socket in its lists
SelectRaises(s) ==
    \E name \in s.monitored_sockets : SocketOf(s, name) # "open"

\* an exception caught inside the loop of _handle_requests is printed and
\* the loop goes on; here it leaves the loop instead, to `except` of start
Propagated(s) == [s EXCEPT !.pc = "start_except"]

\* an exception caught inside the loop of _handle_requests is printed and
\* the loop goes on
Caught(s) == [s EXCEPT !.pc = "handle_requests"]

\* select.select(...) returns no readable socket after 1.0 s, or raises
\* (`except Exception as main_loop_error`)
SelectIdle ==
    /\ server.pc = "select"
    /\ \E raises \in BOOLEAN :
         /\ SelectRaises(server) => raises
         /\ server' = IF raises THEN Caught(server)
                      ELSE [server EXCEPT !.pc = "handle_requests"]
    /\ UNCHANGED <<clientVars, codec, srv, conn>>

\* for problem_socket in exceptional_sockets: _handle_socket_exception:
\* the socket is removed from monitored_sockets and closed
HandleSocketException ==
    /\ server.pc = "select"
    /\ ~SelectRaises(server)
    /\ \E problem_socket \in server.monitored_sockets :
         server' = [server EXCEPT
            !.monitored_sockets = @ \ {problem_socket},
            !.udp_socket = IF problem_socket = "udp" THEN "closed" ELSE @,
            !.tcp_socket = IF problem_socket = "tcp" THEN "closed" ELSE @,
            !.pc = "handle_requests"]
    /\ UNCHANGED <<clientVars, codec, srv, conn>>

\* except Exception as e: of start: the error is printed and
\* self.stop_server() is called; start returns to its caller
StartExcept ==
    /\ server.pc = "start_except"
    /\ server' = [stop_server(server) EXCEPT !.pc = "returned"]
    /\ UNCHANGED <<clientVars, codec, srv, conn>>

\* _signal_handler: self.stop_server(), run between two steps of start
SignalHandler ==
    /\ server.is_active
    /\ server.pc # "returned"
    /\ server' = [stop_server(server) EXCEPT !.signalled = TRUE]
    /\ UNCHANGED <<clientVars, codec, srv, conn>>

ServerStep ==
    \/ ServerStart
    \/ InitializeSockets
    \/ StartBroadcastThread
    \/ HandleRequestsEntry
    \/ HandleRequests
    \/ SelectIdle
    \/ StartExcept
    \/ SignalHandler

\* ------------------------------------------------------------------------
\* the server's UDP worker: _process_udp_request, _handle_udp_speed_test,
\* _calculate_total_segments, _send_segmented_data (src/Server.py 187-305)
\* ------------------------------------------------------------------------

\* the datagrams the server's udp_socket.recvfrom can deliver: length and
\* the fields struct.unpack('!IbQ', data) reads
RequestsOf(sizes) ==
    [len : {REQUEST_SIZE - 1, REQUEST_SIZE},
     cookie : {validator, OtherCookie},
     type : {REQUEST_TYPE, PAYLOAD_TYPE},
     file_size : sizes]

Requests == RequestsOf(0..(MaxServerSegs * segment_size + 1))

NoRequest == [len |-> 0, cookie |-> OtherCookie, type |-> 0, file_size |-> 0]

SrvIdle ==
    [pc |-> "idle", data |-> NoRequest, file_size |-> 0,
     total_segments |-> 0, segment_index |-> 0, sent |-> <<>>]

\* _process_udp_request, called for a readable UDP socket: recvfrom and the
\* start of the worker thread; an exception is printed
ProcessUdpRequest(requests, limit) ==
    /\ server.pc = "select"
    /\ ~SelectRaises(server)
    /\ "udp" \in server.monitored_sockets
    /\ \/ /\ server' = Caught(server)
          /\ UNCHANGED srv
       \/ /\ srv.pc = "idle"
          /\ server.dispatched < limit
          /\ \E data \in requests :
               srv' = [SrvIdle EXCEPT !.pc = "handle", !.data = data]
          /\ server' = [server EXCEPT !.dispatched = @ + 1,
                                      !.pc = "handle_requests"]
    /\ UNCHANGED <<clientVars, codec, conn>>

\* the floor of the quotient, one segment short for a last partial segment
FloorSegments(fsize, ssize) == fsize \div ssize

\* _calculate_total_segments
calculate_total_segments(fsize, ssize) == (fsize + ssize - 1) \div ssize

\* the validation without its test of the message type
IsRequestOfAnyType(data) ==
    /\ data.len = REQUEST_SIZE
    /\ data.cookie = validator

\* struct.unpack('!IbQ', data), which raises struct.error on another length
\* than 13, and the validation of magic_cookie and msg_type
IsRequest(data) ==
    /\ data.len = REQUEST_SIZE
    /\ data.cookie = validator
    /\ data.type = REQUEST_TYPE

\* _handle_udp_speed_test up to the call of _send_segmented_data: unpack
\* (its error is caught and printed), the validation (the worker prints
\* and returns), segment_size and total_segments
HandleUdpSpeedTest ==
    /\ srv.pc = "handle"
    /\ srv' =
         IF ~IsRequest(srv.data)
         THEN [srv EXCEPT !.pc = "invalid"]
         ELSE [srv EXCEPT
                 !.file_size = srv.data.file_size,
                 !.total_segments =
                     calculate_total_segments(srv.data.file_size,
                                              segment_size),
                 !.segment_index = 0,
                 !.pc = "send"]
    /\ UNCHANGED <<clientVars, codec, server, conn>>

\* remaining_bytes = min(segment_size, file_size - segment_index * segment_size)
SegmentLength(fsize, ssize, index) == Min(ssize, fsize - index * ssize)

\* one iteration of `for segment_index in range(total_segments)`: the
\* payload, the header and sendto, which raises on a closed socket and may
\* raise on an open one (`except Exception as processing_error`); or the
\* end of the loop
SendSegment ==
    /\ srv.pc = "send"
    /\ IF srv.segment_index < srv.total_segments
       THEN \E raises \in BOOLEAN :
               /\ server.udp_socket # "open" => raises
               /\ srv' =
                    IF raises
                    THEN [srv EXCEPT !.pc = "error"]
                    ELSE [srv EXCEPT
                            !.sent = Append(@,
                               [total_segments |-> srv.total_segments,
                                segment_index |-> srv.segment_index,
                                payload |-> SegmentLength(srv.file_size,
                                               segment_size,
                                               srv.segment_index)]),
                            !.segment_index = @ + 1]
       ELSE srv' = [srv EXCEPT !.pc = "done"]
    /\ UNCHANGED <<clientVars, codec, server, conn>>

\* the worker thread ends and its locals are gone
SrvExit ==
    /\ srv.pc \in {"invalid", "error", "done"}
    /\ srv' = SrvIdle
    /\ server' = [server EXCEPT !.rejected = @ \/ srv.pc = "invalid"]
    /\ UNCHANGED <<clientVars, codec, conn>>

\* ------------------------------------------------------------------------
\* the server's TCP worker: _process_tcp_connection, _handle_tcp_client,
\* _receive_file_size_request, _transmit_test_data, _close_client_socket
\* (src/Server.py 207-225, 307-361)
\* ------------------------------------------------------------------------

\* the characters of a request as client_socket.recv(1024).decode() gives it
Characters == {"0", "1", "-", "x", "\n"}

\* the texts of at most MaxRequestLen characters
Texts == UNION {[1..n -> Characters] : n \in 0..MaxRequestLen}

Whitespace == {" ", "\n", "\t", "\r"}

Digits == <<"0", "1", "2", "3", "4", "5", "6", "7", "8", "9">>

\* str.strip()
RECURSIVE strip(_)
strip(text) ==
    IF text = <<>> THEN text
    ELSE IF text[1] \in Whitespace THEN strip(Tail(text))
    ELSE IF text[Len(text)] \in Whitespace
         THEN strip(SubSeq(text, 1, Len(text) - 1))
    ELSE text

IsDigit(c) == \E d \in 1..10 : Digits[d] = c

DigitValue(c) == (CHOOSE d \in 1..10 : Digits[d] = c) - 1

\* the texts int() accepts: an optional sign and at least one digit
IsInteger(text) ==
    LET digits == IF text # <<>> /\ text[1] \in {"-", "+"}
                  THEN Tail(text) ELSE text IN
    /\ digits # <<>>
    /\ \A i \in 1..Len(digits) : IsDigit(digits[i])

RECURSIVE Magnitude(_)
Magnitude(digits) ==
    IF digits = <<>> THEN 0
    ELSE 10 * Magnitude(SubSeq(digits, 1, Len(digits) - 1))
         + DigitValue(digits[Len(digits)])

\* int(raw_data) for a text that IsInteger
int(text) ==
    IF text[1] = "-" THEN 0 - Magnitude(Tail(text))
    ELSE IF text[1] = "+" THEN Magnitude(Tail(text))
    ELSE Magnitude(text)

ConnNone ==
    [pc |-> "none", client_socket |-> "None", raw_data |-> <<>>,
     requested_file_size |-> 0, written |-> 0, failure |-> "none",
     path |-> <<>>]

\* _process_tcp_connection, called for a readable TCP socket: accept and
\* the start of the worker thread; an exception is printed
ProcessTcpConnection(limit) ==
    /\ server.pc = "select"
    /\ ~SelectRaises(server)
    /\ "tcp" \in server.monitored_sockets
    /\ \/ /\ server' = Caught(server)
          /\ UNCHANGED conn
       \/ /\ conn.pc = "none"
          /\ server.dispatched < limit
          /\ conn' = [ConnNone EXCEPT !.pc = "accepted",
                                      !.client_socket = "open",
                                      !.path = <<"ACCEPTED">>]
          /\ server' = [server EXCEPT !.dispatched = @ + 1,
                                      !.pc = "handle_requests"]
    /\ UNCHANGED <<clientVars, codec, srv>>

\* an exception inside the `try` of _handle_tcp_client: it is printed
Fails(c, failure) == [c EXCEPT !.failure = failure, !.pc = "finally"]

\* _handle_tcp_client: client_socket.settimeout(5.0) and the call of
\* _receive_file_size_request
HandleTcpClient ==
    /\ conn.pc = "accepted"
    /\ conn' = [conn EXCEPT !.pc = "awaiting_size",
                            !.path = Append(@, "AWAITING_SIZE")]
    /\ UNCHANGED <<clientVars, codec, srv, server>>

\* _receive_file_size_request: recv raises socket.timeout after 5 s or
\* another error, or returns raw_data (b'' when the peer has closed);
\* int(raw_data.strip()) raises ValueError unless the text is an integer
ReceiveFileSizeRequest(texts) ==
    /\ conn.pc = "awaiting_size"
    /\ \/ conn' = Fails(conn, "timeout")
       \/ conn' = Fails(conn, "error")
       \/ \E raw_data \in texts :
            conn' =
               IF IsInteger(strip(raw_data))
               THEN [conn EXCEPT
                       !.raw_data = raw_data,
                       !.requested_file_size = int(strip(raw_data)),
                       !.pc = "streaming",
                       !.path = Append(@, "STREAMING")]
               ELSE Fails([conn EXCEPT !.raw_data = raw_data], "parse")
    /\ UNCHANGED <<clientVars, codec, srv, server>>

\* len(b'X' * file_size): a negative count gives the empty payload
PayloadLength(fsize) == IF fsize < 0 THEN 0 ELSE fsize

\* _transmit_test_data: client_socket.sendall(test_data) sends it all, or
\* raises with part of it sent: on an error of the connection, or as
\* socket.timeout when the whole call takes more than the 5 s of
\* settimeout (the timeout of sendall bounds its total duration)
TransmitTestData ==
    /\ conn.pc = "streaming"
    /\ LET size == PayloadLength(conn.requested_file_size) IN
       \/ conn' = [conn EXCEPT !.written = size, !.pc = "finally"]
       \/ \E failure \in {"timeout", "error"}, part \in 0..(size - 1) :
            conn' = Fails([conn EXCEPT !.written = part], failure)
    /\ UNCHANGED <<clientVars, codec, srv, server>>

\* the socket is left as it is
LeaveClientSocket(c) == c

\* _close_client_socket: client_socket.close(), an error of it is printed
close_client_socket(c) == [c EXCEPT !.client_socket = "closed"]

\* finally: self._close_client_socket(client_socket); the thread ends
HandleTcpClientFinally ==
    /\ conn.pc = "finally"
    /\ conn' = [close_client_socket(conn) EXCEPT
                   !.pc = "closed", !.path = Append(@, "CLOSED")]
    /\ UNCHANGED <<clientVars, codec, srv, server>>

\* the worker thread has ended and its locals are gone
ConnExit ==
    /\ conn.pc = "closed"
    /\ conn' = ConnNone
    /\ UNCHANGED <<clientVars, codec, srv, server>>

TcpWorkerStep(texts) ==
    \/ HandleTcpClient
    \/ ReceiveFileSizeRequest(texts)
    \/ TransmitTestData
    \/ HandleTcpClientFinally
    \/ ConnExit

\* the client after Client.__init__
ClientInit ==
    /\ state = "INITIALIZATION"
    /\ is_running = TRUE
    /\ file_size = None
    /\ sync_lock = Unlocked
    /\ active_tests = 0
    /\ performance_data = EmptyPerformanceData
    /\ mainpc = "main_loop"
    /\ sessions = 0
    /\ counts = [tcp |-> 0, udp |-> 0]
    /\ test_num = 0
    /\ test_threads = <<>>
    /\ join_idx = 1
    /\ deadline_passed = FALSE
    /\ printed = FALSE
    /\ reported = {}
    /\ threads = [t \in Threads |-> NotStarted]
    /\ committed = EmptyCommitted
    /\ discovered_servers = <<>>
    /\ window = <<>>
    /\ first_offer = NoOffer
    /\ server_args = NoOffer

Init ==
    /\ ClientInit
    /\ srv = SrvIdle /\ server = ServerInit /\ conn = ConnNone
    /\ codec = NoCodec

\* a server with any of the ports __init__ can draw
InitBroadcast ==
    /\ ClientInit
    /\ srv = SrvIdle /\ conn = ConnNone /\ codec = NoCodec
    /\ server \in {ServerObject(tcp_port, udp_port) :
                      tcp_port \in ServerPorts, udp_port \in ServerPorts}

\* the codec with one message to build
InitCodec ==
    /\ ClientInit
    /\ srv = SrvIdle /\ server = ServerInit /\ conn = ConnNone
    /\ codec \in {[NoCodec EXCEPT !.message = m, !.pc = "input"] :
                      m \in Messages}

\* what the user types, what the network delivers during discovery and how
\* far a scenario goes
Concurrent ==
    [sizes |-> 1..ConcurrentFileSize, tcp |-> -1..MaxThreads,
     udp |-> -1..MaxThreads, threads |-> MaxThreads,
     sessions |-> ConcurrentSessions, segs |-> ConcurrentSegs,
     ips |-> {1}, ports |-> {1}, window |-> 1,
     idle |-> ConcurrentIdle]

TcpRuns ==
    [sizes |-> 1..MaxFileSize, tcp |-> 0..RunThreads, udp |-> {0},
     threads |-> RunThreads, sessions |-> MaxSessions, segs |-> MaxSegs,
     ips |-> {1}, ports |-> {1}, window |-> 1,
     idle |-> IdleLimit]

UdpRuns ==
    [sizes |-> 1..MaxFileSize, tcp |-> {0}, udp |-> 0..RunThreads,
     threads |-> RunThreads, sessions |-> MaxSessions, segs |-> MaxSegs,
     ips |-> {1}, ports |-> {1}, window |-> 1,
     idle |-> IdleLimit]

Discovery ==
    [sizes |-> {1}, tcp |-> 0..RunThreads, udp |-> {0},
     threads |-> RunThreads, sessions |-> ConcurrentSessions,
     segs |-> ConcurrentSegs, ips |-> 1..MaxHosts, ports |-> 1..MaxPort, window |-> MaxDatagrams,
     idle |-> IdleLimit]

SessionRuns ==
    [sizes |-> {1}, tcp |-> 0..RunThreads, udp |-> 0..RunThreads,
     threads |-> RunThreads, sessions |-> MaxSessions,
     segs |-> ConcurrentSegs, ips |-> {1}, ports |-> {1}, window |-> 1,
     idle |-> IdleLimit]

Cancellation ==
    [sizes |-> {1}, tcp |-> 0..RunThreads, udp |-> 0..RunThreads,
     threads |-> MaxThreads, sessions |-> ConcurrentSessions,
     segs |-> ConcurrentSegs, ips |-> {1}, ports |-> {1}, window |-> 1,
     idle |-> IdleLimit]

WorkerRuns ==
    [sizes |-> 1..MaxFileSize, tcp |-> 0..RunThreads, udp |-> 0..RunThreads,
     threads |-> RunThreads, sessions |-> ConcurrentSessions,
     segs |-> MaxSegs, ips |-> {1}, ports |-> {1}, window |-> 1,
     idle |-> IdleLimit]

\* sessions of TCP and UDP runs side by side
Next ==
    \/ MainStep(Concurrent)
    \/ \E t \in Threads : TcpStep(t)
    \/ \E t \in Threads : UdpStep(t, Concurrent.segs, Concurrent.idle)

Spec == Init /\ [][Next]_vars

\* sessions of one TCP run
NextTcp ==
    \/ MainStep(TcpRuns)
    \/ \E t \in Threads : TcpStep(t)

SpecTcp == Init /\ [][NextTcp]_vars

\* the server and one UDP worker, for one request of any size
NextServer ==
    \/ ServerStep
    \/ ProcessUdpRequest(Requests, 1)
    \/ HandleUdpSpeedTest
    \/ SendSegment
    \/ SrvExit

SpecServer == Init /\ [][NextServer]_vars

\* sessions of one UDP run
NextUdp ==
    \/ MainStep(UdpRuns)
    \/ \E t \in Threads : UdpStep(t, UdpRuns.segs, UdpRuns.idle)

SpecUdp == Init /\ [][NextUdp]_vars

\* discovery among several servers, and sessions of one TCP run
NextDiscovery ==
    \/ MainStep(Discovery)
    \/ \E t \in Threads : TcpStep(t)

SpecDiscovery == Init /\ [][NextDiscovery]_vars

\* the server and one TCP worker at a time
NextServerTcp ==
    \/ ServerStep
    \/ ProcessTcpConnection(MaxRequests)
    \/ TcpWorkerStep(Texts)

SpecServerTcp == Init /\ [][NextServerTcp]_vars

\* the requests of the dispatch scenario: a datagram for one segment and a
\* partial one, a text that is a size and one that is not
DispatchSizes == {segment_size + 1}

DispatchTexts == {<<"1", "\n">>, <<"x">>}

\* the server with one worker of each kind at a time
NextDispatch ==
    \/ ServerStep
    \/ HandleSocketException
    \/ ProcessUdpRequest(RequestsOf(DispatchSizes), MaxRequests)
    \/ HandleUdpSpeedTest
    \/ SendSegment
    \/ SrvExit
    \/ ProcessTcpConnection(MaxRequests)
    \/ TcpWorkerStep(DispatchTexts)

SpecDispatch == Init /\ [][NextDispatch]_vars

\* the steps the main thread takes by itself: every step but the signal
\* handler, an exception, and a discovery iteration that changes nothing
MainProgress(sc) ==
    \/ MainLoop(sc)
    \/ DiscoveryLoop(sc) /\ mainpc' # mainpc
    \/ FindAvailableServer
    \/ GetTestCounts(sc)
    \/ ResetAcquire
    \/ ResetRelease
    \/ LaunchTcp
    \/ StartTcpThread
    \/ LaunchUdp
    \/ StartUdpThread
    \/ JoinFinished
    \/ JoinTimeout
    \/ DisplayAcquire
    \/ DisplayRelease
    \/ SessionFinally
    \/ Cleanup

\* the main thread goes on: the user answers the prompts, the discovery
\* window and the timeout of join pass
MainFairness(sc) == WF_vars(MainProgress(sc))

\* the steps of a test thread that leave a block guarded by sync_lock
LockRelease(t) ==
    \/ TcpActiveIncRelease(t)
    \/ TcpRecordSuccessRelease(t)
    \/ TcpRecordFailureRelease(t)
    \/ TcpFinallyRelease(t)
    \/ UdpReceivedRelease(t)
    \/ UdpRecordRelease(t)

\* a thread inside a guarded block leaves it: the block only assigns
LockFairness == \A t \in Threads : WF_vars(LockRelease(t))

\* every call of a test thread returns in the end: connect, send, select
\* and recv have timeouts
WorkerFairness(segs, limit) ==
    \A t \in Threads : WF_vars(TcpStep(t) \/ UdpStep(t, segs, limit))

\* sessions of one run, whose thread may stay in a call for ever
NextSession ==
    \/ MainStep(SessionRuns)
    \/ \E t \in Threads : TcpStep(t)
    \/ \E t \in Threads : UdpStep(t, SessionRuns.segs, SessionRuns.idle)

SpecSession ==
    /\ Init
    /\ [][NextSession]_vars
    /\ MainFairness(SessionRuns)
    /\ LockFairness

\* a session of two runs, whose threads go on
NextCancellation ==
    \/ MainStep(Cancellation)
    \/ \E t \in Threads : TcpStep(t)
    \/ \E t \in Threads : UdpStep(t, Cancellation.segs, Cancellation.idle)

SpecCancellation ==
    /\ Init
    /\ [][NextCancellation]_vars
    /\ MainFairness(Cancellation)
    /\ WorkerFairness(Cancellation.segs, Cancellation.idle)


\* a session of one run of either kind, whose thread and whose main thread
\* go on
NextWorkers ==
    \/ MainStep(WorkerRuns)
    \/ \E t \in Threads : TcpStep(t)
    \/ \E t \in Threads : UdpStep(t, WorkerRuns.segs, WorkerRuns.idle)

SpecWorkers ==
    /\ Init
    /\ [][NextWorkers]_vars
    /\ MainFairness(WorkerRuns)
    /\ WorkerFairness(WorkerRuns.segs, WorkerRuns.idle)

\* one message through the codec: built, damaged or not, parsed
NextCodec ==
    \/ CodecBuild
    \/ CodecDamage
    \/ CodecParse
    \/ CodecParseRequest

SpecCodec == InitCodec /\ [][NextCodec]_vars

\* the server and its broadcast thread; sendto returns and sleep ends, so
\* the thread goes on
NextBroadcast ==
    \/ ServerStep
    \/ BroadcastOffer

SpecBroadcast ==
    /\ InitBroadcast
    /\ [][NextBroadcast]_vars
    /\ WF_vars(BroadcastOffer)

\* ------------------------------------------------------------------------
\* properties
\* ------------------------------------------------------------------------
TcpThreads == {t \in Threads : threads[t].kind = "tcp"}

UdpThreads == {t \in Threads : threads[t].kind = "udp"}

\* C1: a TCP run whose 3 connect attempts all fail with a refusal or a
\* connect timeout adds exactly 1 to failures.connections and nothing to
\* failures.transfers and successes.
C1_AllConnectsFailCountOnce ==
    \A t \in TcpThreads :
        (/\ threads[t].pc = "done"
         /\ threads[t].connects = max_attempts
         /\ threads[t].attempt_count = max_attempts
         /\ ~threads[t].ever_connected)
        => /\ threads[t].recorded.connections = 1
           /\ threads[t].recorded.transfers = 0
           /\ threads[t].recorded.successes = 0

\* C2: when the N TCP workers of a session have all finished and the client
\* was not cancelled, successes + failures.connections + failures.transfers
\* equals N.
C2_OutcomesSumToWorkers ==
    (/\ mainpc \in {"display", "finally"}
     /\ is_running
     /\ \A i \in 1..Len(test_threads) :
            threads[test_threads[i]].pc = "done")
    => performance_data.tcp.successes
         + performance_data.tcp.failures.connections
         + performance_data.tcp.failures.transfers
       = Cardinality({i \in 1..Len(test_threads) :
                         threads[test_threads[i]].kind = "tcp"})

\* C3: an error raised in the receive loop of a TCP run, after the request
\* was sent, is recorded as a transfer failure and does not use up a
\* connect attempt.
C3_ReceiveErrorIsTransferFailure ==
    [][\A t \in Threads :
          (/\ threads[t].kind = "tcp"
           /\ threads[t].pc = "select"
           /\ threads'[t].pc = "record_failure")
          => /\ threads'[t].error_type = "transfers"
             /\ threads'[t].attempt_count = threads[t].attempt_count]_vars

\* C4: a TCP run is recorded as a success only when it received exactly
\* file_size bytes.
C4_SuccessOnlyWhenComplete ==
    \A t \in TcpThreads :
        threads[t].pc \in {"record_success", "record_success_write"}
        => threads[t].bytes_received = file_size

\* C5: once the statistics of a session are printed, performance_data is
\* not changed until the reset of the next session.
C5_PrintedStatisticsImmutable ==
    [][printed /\ printed' => performance_data' = performance_data]_vars

\* the positions inside a `with self.sync_lock:` block
CriticalPcs ==
    {"active_inc_write", "record_success_write", "record_failure_write",
     "active_dec_write", "received_inc_write", "record_udp_write"}

InCritical ==
    {t \in Threads : threads[t].pc \in CriticalPcs}
    \cup (IF mainpc \in {"reset_write", "display"} THEN {MainThread} ELSE {})

\* the positions at which a thread waits for sync_lock
WaitingPcs ==
    {"active_inc", "record_success", "record_failure", "finally",
     "received_inc", "record_udp"}

\* C6: at most one thread is inside a block guarded by sync_lock, that
\* thread is the holder of the lock (so a thread at a connect, send or
\* receive holds no lock), and every completed update of performance_data
\* since the last reset is in it: no update is lost.
C6_StatisticsUnderLock ==
    /\ Cardinality(InCritical) <= 1
    /\ InCritical = (IF sync_lock = Unlocked THEN {} ELSE {sync_lock})
    /\ performance_data.tcp.successes = committed.successes
    /\ performance_data.tcp.failures.connections = committed.connections
    /\ performance_data.tcp.failures.transfers = committed.transfers
    /\ Len(performance_data.tcp.timings) = committed.tcp_timings
    /\ Len(performance_data.udp.timings) = committed.udp_timings
    /\ performance_data.udp.packets.received = committed.received
    /\ performance_data.udp.packets.lost = committed.lost

\* two threads of one session: one inside its block, the other waiting for
\* the lock, after an update was already made
C6_Witness ==
    \E t1, t2 \in Threads :
        /\ t1 # t2
        /\ threads[t1].pc \in CriticalPcs
        /\ threads[t2].pc \in WaitingPcs
        /\ committed.connections + committed.received >= 1

\* C7: a TCP run makes at most max_attempts = 3 connect attempts; every
\* connect attempt follows as many counted failures as attempts made before
\* it, and once the third failure is counted the run only records it and
\* ends, with no success recorded.
C7_AtMostThreeConnects ==
    \A t \in TcpThreads :
        /\ threads[t].connects <= max_attempts
        /\ threads[t].pc = "connect"
           => /\ threads[t].connects = threads[t].attempt_count
              /\ threads[t].attempt_count < max_attempts
        /\ threads[t].attempt_count >= max_attempts
           => /\ threads[t].pc \in {"record_failure", "record_failure_write",
                                    "loop", "finally", "active_dec_write",
                                    "done"}
              /\ threads[t].recorded.successes = 0

\* a run that ended after three refused or timed-out connects
C7_Witness ==
    \E t \in TcpThreads :
        /\ threads[t].pc = "done"
        /\ threads[t].connects = max_attempts
        /\ threads[t].attempt_count = max_attempts
        /\ ~threads[t].ever_connected

CeilDiv(a, b) == IF a % b = 0 THEN a \div b ELSE (a \div b) + 1

RECURSIVE PayloadTotal(_)
PayloadTotal(sent) ==
    IF sent = <<>> THEN 0
    ELSE sent[Len(sent)].payload + PayloadTotal(SubSeq(sent, 1, Len(sent) - 1))

ValidRequest(data) ==
    /\ data.len = REQUEST_SIZE
    /\ data.cookie = validator
    /\ data.type = REQUEST_TYPE

FirstTotal(arrivals) == arrivals[1][1]

DistinctIndices(arrivals) == {arrivals[i][2] : i \in 1..Len(arrivals)}

\* C9: in a UDP run, total_segments is the totalSegments T of the first
\* valid payload and stays so, the received set holds the R distinct
\* indices; a run that reports has lost count T - R and loss percentage
\* (T - R) / T * 100 and adds T - R to packets.lost; a run that received no
\* valid segment is not reported as finished and adds no timing and no
\* lost packets.
C9_LossFromFirstTotal ==
    \A t \in UdpThreads :
        LET r == threads[t]
            T == FirstTotal(r.arrivals)
            R == Cardinality(DistinctIndices(r.arrivals)) IN
        /\ r.arrivals # <<>>
           => /\ r.total_segments = T
              /\ r.received_segments = DistinctIndices(r.arrivals)
        /\ r.pc \in {"record_udp", "record_udp_write", "finished"}
           => /\ r.arrivals # <<>>
              /\ T >= 1
              /\ r.lost_packets = T - R
              /\ r.loss_percentage[2] = T
              /\ r.loss_percentage[1] = (T - R) * 100
        /\ r.pc = "finished"
           => r.recorded.lost = T - R /\ r.recorded.timings = 1
        /\ r.recorded.received = 0 /\ r.arrivals = <<>>
           => /\ r.recorded.timings = 0
              /\ r.recorded.lost = 0
              /\ r.pc = "done" => r.outcome \in {"failed", "error"}

\* a run that got segment 0 of 2 twice and reported one lost segment
C9_Witness ==
    \E t \in UdpThreads :
        /\ threads[t].pc = "finished"
        /\ Len(threads[t].arrivals) = 2
        /\ threads[t].arrivals[1] = threads[t].arrivals[2]
        /\ FirstTotal(threads[t].arrivals) = 2
        /\ threads[t].recorded.lost = 1

\* C10: every index in the received set of a UDP run is below the run's
\* total_segments, so the distinct count is at most total_segments and
\* the lost count is not negative.
C10_IndicesBelowTotal ==
    \A t \in UdpThreads :
        threads[t].total_segments # None
        => /\ \A i \in threads[t].received_segments :
                 i < threads[t].total_segments
           /\ Cardinality(threads[t].received_segments)
                 <= threads[t].total_segments
           /\ threads[t].lost_packets >= 0

\* C11: a worker started for a datagram that is not a valid Request (not 13
\* bytes, another cookie, or a type other than 0x3) sends no segment and
\* ends without an error; as long as stop_server is not called the server
\* stays active, in its request loop.
C11_InvalidRequestDiscarded ==
    /\ (srv.pc # "idle" /\ ~ValidRequest(srv.data))
       => /\ srv.sent = <<>>
          /\ srv.pc \in {"handle", "invalid"}
    /\ ((srv.pc = "invalid" \/ server.rejected) /\ ~server.signalled)
       => /\ server.is_active
          /\ server.pc \in {"handle_requests", "select"}

\* after a worker has ended on an invalid datagram, a valid request for
\* 1025 bytes was answered by two segments
C11_Witness ==
    /\ server.rejected
    /\ ValidRequest(srv.data)
    /\ srv.pc = "done"
    /\ Len(srv.sent) = 2

\* C12: a TCP worker whose request is the text of an integer F >= 0 writes
\* exactly F bytes and closes the connection, after the states ACCEPTED,
\* AWAITING_SIZE, STREAMING, CLOSED in that order.
C12_WritesExactlyRequested ==
    (/\ conn.pc = "closed"
     /\ IsInteger(strip(conn.raw_data))
     /\ conn.requested_file_size >= 0)
    => /\ conn.written = conn.requested_file_size
       /\ conn.client_socket = "closed"
       /\ conn.path = <<"ACCEPTED", "AWAITING_SIZE", "STREAMING", "CLOSED">>

\* the worker has not reached _transmit_test_data
NotStreamed(c) == \A i \in 1..Len(c.path) : c.path[i] # "STREAMING"

\* C13: a TCP worker whose request is not the text of an integer, or that
\* gets no request within the timeout, writes no byte; and every worker
\* that has ended, however it ended, has closed its client socket.
C13_NothingWrittenAndClosed ==
    /\ (conn.pc # "none" /\ NotStreamed(conn)) => conn.written = 0
    /\ conn.failure = "parse" => NotStreamed(conn)
    /\ conn.pc = "closed"
       => /\ conn.client_socket = "closed"
          /\ conn.path[Len(conn.path)] = "CLOSED"
    /\ conn.pc \notin {"none", "closed"} => conn.client_socket = "open"

\* a worker that ended on a request that is not a number
C13_Witness ==
    /\ conn.pc = "closed"
    /\ conn.failure = "parse"
    /\ conn.raw_data = <<"1", "x", "\n">>
    /\ conn.written = 0

\* an offer as the protocol defines it: 9 bytes, the cookie 0xABCDDCBA and
\* the type 0x2
ValidOffer(m) ==
    /\ m.len = 9
    /\ m.cookie = <<171, 205, 220, 186>>
    /\ m.type = 2

\* C14: a datagram received during discovery changes the discovered list
\* only when it is a valid offer, and then by appending its (IP, udpPort,
\* tcpPort); any other datagram leaves the list and the client state as
\* they are and the discovery loop running.
C14_OnlyValidOffersDiscovered ==
    [][(mainpc = "discovery" /\ window' # window)
       => LET m == window'[Len(window')] IN
          /\ discovered_servers' # discovered_servers
             => /\ ValidOffer(m)
                /\ discovered_servers' =
                      Append(discovered_servers,
                             <<m.ip, m.udp_port, m.tcp_port>>)
          /\ ~ValidOffer(m)
             => /\ discovered_servers' = discovered_servers
                /\ state' = state
                /\ mainpc' = "discovery"]_vars

\* a datagram of 8 bytes was skipped and the offer after it was taken
C14_Witness ==
    /\ mainpc = "discovery"
    /\ Len(window) = 2
    /\ window[1].len = 8
    /\ window[1].cookie = <<171, 205, 220, 186>>
    /\ window[1].type = 2
    /\ ValidOffer(window[2])
    /\ discovered_servers =
          <<<<window[2].ip, window[2].udp_port, window[2].tcp_port>>>>

\* C15: the discovered list holds no two entries with the same IP and its
\* first entry is the first valid offer of the window; the session runs
\* against that offer: its IP and ports are the arguments of the session
\* and of every test thread the session starts.
C15_FirstValidOfferChosen ==
    /\ \A i, j \in 1..Len(discovered_servers) :
          discovered_servers[i][1] = discovered_servers[j][1] => i = j
    /\ first_offer # NoOffer
       => /\ discovered_servers # <<>>
          /\ discovered_servers[1] = first_offer
    /\ discovered_servers # <<>> => first_offer # NoOffer
    /\ state = "PERFORMANCE_TEST"
       => /\ first_offer # NoOffer
          /\ server_args = first_offer
          /\ \A i \in 1..Len(test_threads) :
                LET r == threads[test_threads[i]] IN
                /\ r.server_host = first_offer[1]
                /\ r.server_port = IF r.kind = "tcp" THEN first_offer[3]
                                   ELSE first_offer[2]

\* two servers were discovered and a TCP run of the session connects
C15_Witness ==
    /\ state = "PERFORMANCE_TEST"
    /\ Len(discovered_servers) = 2
    /\ discovered_servers[1] = <<2, 1, 2>>
    /\ \E i \in 1..Len(test_threads) :
          threads[test_threads[i]].pc = "connect"

\* C16: the client state changes only from INITIALIZATION to
\* SERVER_DISCOVERY, from SERVER_DISCOVERY to PERFORMANCE_TEST with a
\* valid offer discovered, and from PERFORMANCE_TEST to SERVER_DISCOVERY.
C16_StateTransitions ==
    [][state' # state
       => \/ state = "INITIALIZATION" /\ state' = "SERVER_DISCOVERY"
          \/ /\ state = "SERVER_DISCOVERY"
             /\ state' = "PERFORMANCE_TEST"
             /\ first_offer # NoOffer
          \/ state = "PERFORMANCE_TEST" /\ state' = "SERVER_DISCOVERY"]_vars

\* a session has ended and the client is back in discovery
C16_Witness ==
    /\ state = "SERVER_DISCOVERY"
    /\ sessions = 1
    /\ mainpc = "main_loop"

\* C17: a test session ends: when the client state is PERFORMANCE_TEST it
\* becomes SERVER_DISCOVERY again, also when a test thread stays in a call
\* for ever and when an exception is raised in the session.
C17_SessionEnds ==
    (state = "PERFORMANCE_TEST") ~> (state = "SERVER_DISCOVERY")

\* the session is at its end while one of its threads has not finished
C17_Witness ==
    /\ mainpc = "finally"
    /\ state = "PERFORMANCE_TEST"
    /\ printed
    /\ \E i \in 1..Len(test_threads) :
          threads[test_threads[i]].pc = "connect"

\* the test threads that have not ended
Alive == {t \in Threads : threads[t].pc \notin {"none", "done"}}

\* the test threads started while is_running was false
StartedAfterCancel == {t \in Threads : ~threads[t].started_running}

\* C18 (original): once is_running is false no test thread is started.
C18_NoThreadStartedAfterCancel ==
    [][\A t \in Threads :
          (~is_running /\ threads[t].kind = "none")
          => threads'[t].kind = "none"]_vars

\* C18 (amended): is_running never becomes true again; after it became
\* false at most one test thread is started, the one whose is_running test
\* had passed, and no launch iteration is begun; the discovery loop, the
\* TCP retry loop, the TCP receive loop and the UDP receive loop end at
\* their next loop test;
\* and in the end every test thread and the main loop have ended.
C18_CancellationStops ==
    /\ [][~is_running => ~is_running']_vars
    /\ [](Cardinality(StartedAfterCancel) <= 1)
    /\ [][(~is_running /\ mainpc \in {"launch_tcp", "launch_udp"})
          => mainpc' \notin {"start_tcp", "start_udp"}]_vars
    /\ [][(~is_running /\ mainpc = "discovery")
          => /\ window' = window
             /\ mainpc' \in {"discovery", "choose"}]_vars
    /\ [][\A t \in Threads :
             (~is_running /\ threads'[t].pc # threads[t].pc)
             => /\ threads[t].pc = "loop" /\ threads[t].kind = "tcp"
                   => threads'[t].pc = "finally"
                /\ threads[t].pc = "transfer"
                   => threads'[t].pc \in {"record_success",
                                          "record_failure"}
                /\ threads[t].pc = "loop" /\ threads[t].kind = "udp"
                   => threads'[t].pc = "after_loop"]_vars
    /\ (~is_running) ~> (mainpc = "exit" /\ Alive = {})

\* a thread was started after the flag was cleared, and it has ended with
\* the main loop
C18_Witness ==
    /\ ~is_running
    /\ mainpc = "exit"
    /\ Alive = {}
    /\ StartedAfterCancel # {}

\* C19: once the request loop is entered, and until the signal handler
\* calls stop_server, the server is active and in its request loop,
\* whatever has failed in the loop or in a worker.
C19_LoopSurvivesFailures ==
    (server.entered /\ ~server.signalled)
    => /\ server.is_active
       /\ server.pc \in {"handle_requests", "select"}

\* an invalid datagram, a connection whose request was no number and a
\* socket with an exceptional condition, and the loop still runs
C19_Witness ==
    /\ server.rejected
    /\ conn.pc = "closed"
    /\ conn.failure = "parse"
    /\ server.monitored_sockets = {"tcp"}
    /\ ~server.signalled
    /\ server.is_active
    /\ server.pc = "select"

\* C20: when the bind or the listen of a socket fails in start, start does
\* not return to its caller but raises, the broadcast thread is not
\* started and the request loop is not entered.
C20_BindFailurePropagates ==
    server.start_error \in {"udp", "tcp"}
    => /\ server.pc # "returned"
       /\ server.broadcast = "none"
       /\ ~server.entered


\* C28: active_tests is never negative, and it is 0 whenever no TCP test
\* thread is running, whatever the outcome of the runs (retries included).
RunningTcp == {t \in TcpThreads : Th(t).pc # "done"}

C28_ActiveTestsCountsRunning ==
    /\ active_tests >= 0
    /\ RunningTcp = {} => active_tests = 0


\* C29: when a TCP run has ended, every socket it created (one for each
\* pass of the retry loop) has been closed by the run.
C29_AllSocketsClosed ==
    \A t \in TcpThreads :
        Th(t).pc = "done" => Th(t).open_sockets = 0


\* C23: when the summary of a session with at least one TCP run has been
\* printed, it holds the TCP block with the connection-failure and the
\* transfer-failure counts, whether or not a TCP run succeeded (stated for
\* the sessions whose TCP runs have all ended, one of them at least with a
\* failure, when the summary is printed).
C23_FailureCountsReported ==
    [][(/\ mainpc = "display" /\ printed'
        /\ TcpThreads # {}
        /\ \A t \in TcpThreads : Th(t).pc = "done"
        /\ performance_data.tcp.failures.connections
             + performance_data.tcp.failures.transfers > 0)
           => "tcp" \in reported']_vars


\* C24: a UDP run adds to packets.received and packets.lost, together, the
\* totalSegments it was told, whatever the order of the datagrams and
\* however many are duplicated: a duplicate of a segment already received
\* adds nothing to packets.received.  The counters of a session are the
\* sums of what its runs added, so that lost / (received + lost) is the
\* share of the expected segments that were lost.
C24_ReceivedPlusLostIsExpected ==
    \A t \in UdpThreads :
        Th(t).pc = "finished" =>
            /\ Th(t).recorded.received
                 = Cardinality(DistinctIndices(Th(t).arrivals))
            /\ Th(t).recorded.received + Th(t).recorded.lost
                 = FirstTotal(Th(t).arrivals)


Kinds == [i \in 1..Len(test_threads) |-> threads[test_threads[i]].kind]

\* C26: in a session with counts N (TCP) and M (UDP) that is not cancelled
\* during the launch, the statistics are reset before a thread is started;
\* then exactly N TCP threads and after them exactly M UDP threads are
\* started, each added to test_threads as it is started and none waited
\* for before the next one starts; the join loop passes over exactly the
\* N + M threads of test_threads.
C26_LaunchesAndJoinsRequested ==
    /\ [](mainpc \in {"reset", "reset_write"} => test_num = 0)
    /\ []((mainpc = "join" /\ is_running) =>
            /\ Len(test_threads) = counts.tcp + counts.udp
            /\ \A i, j \in 1..Len(test_threads) :
                  i # j => test_threads[i] # test_threads[j]
            /\ \A i \in 1..Len(test_threads) :
                  Kinds[i] = IF i <= counts.tcp THEN "tcp" ELSE "udp")
    /\ [](mainpc = "display" => join_idx = Len(test_threads) + 1)
    /\ [][/\ (mainpc = "reset_write" /\ mainpc' = "launch_tcp") =>
               (performance_data' = EmptyPerformanceData
                    /\ test_threads' = <<>>)
          /\ \A t \in Threads :
               (threads[t].kind = "none" /\ threads'[t].kind # "none") =>
                   /\ mainpc \in {"start_tcp", "start_udp"}
                   /\ test_threads' = Append(test_threads, t)
          /\ (mainpc = "join" /\ join_idx' # join_idx) =>
                   (threads' = threads /\ join_idx' = join_idx + 1)]_vars

\* a session of one TCP and one UDP run at the start of the join loop,
\* both threads running
C26_Witness ==
    /\ mainpc = "join" /\ is_running /\ join_idx = 1
    /\ counts.tcp = 1 /\ counts.udp = 1
    /\ Kinds = <<"tcp", "udp">>
    /\ \A i \in 1..2 : test_threads[i] \in Alive


\* C30: every test thread that has started ends.  A TCP run makes at most
\* max_attempts connects, and its receive loop ends when the file is
\* complete, when the peer closes or at the read timeout; a UDP run ends
\* when it has the full set of segments or when no valid segment has come
\* for SOCKET_TIMEOUT, the datagrams of a run being finitely many.
C30_WorkersTerminate ==
    /\ [](\A t \in TcpThreads : Th(t).connects <= max_attempts)
    /\ \A t \in Threads : (Th(t).pc \notin {"none", "done"}) ~> (Th(t).pc = "done")

\* a TCP run that has ended after max_attempts connects
C30_Witness ==
    \E t \in TcpThreads :
        /\ Th(t).pc = "done"
        /\ Th(t).connects = max_attempts
        /\ Th(t).recorded.connections = max_attempts


\* the buffer of an undamaged message has been parsed
ParsedWhole == codec.pc = "parsed" /\ codec.damage = "none"

\* C21: what build_message encodes, parse_message decodes to the same
\* values: an Offer to (OFFER, (udpPort, tcpPort)), a Request to
\* (REQUEST, (fileSize,)), a Payload to (PAYLOAD, (totalSegments,
\* segmentIndex, payload)); the buffers are 9, 13 and 21 + len(payload)
\* bytes long.
C21_RoundTrip ==
    ParsedWhole =>
        LET m == codec.message IN
        /\ codec.result.raised = "none"
        /\ codec.result.value[1] = m.type
        /\ codec.result.value[2] =
              IF m.type = PAYLOAD_MESSAGE_TYPE
              THEN Append(m.args, m.payload) ELSE m.args
        /\ Len(codec.data) =
              CASE m.type = OFFER_MESSAGE_TYPE -> 9
                [] m.type = REQUEST_MESSAGE_TYPE -> 13
                [] OTHER -> 21 + Len(m.payload)

\* a Payload with a payload of two bytes and fields of several bytes
C21_Witness ==
    /\ ParsedWhole
    /\ codec.message = Message(PAYLOAD_MESSAGE_TYPE, <<65536, 256>>, <<0, 255>>)
    /\ codec.result = Ok(<<PAYLOAD_MESSAGE_TYPE, <<65536, 256, <<0, 255>>>>>>)
    /\ Len(codec.data) = 23


\* C22: parse_message raises ValueError, and gives no value, on a buffer
\* cut inside the header or the body of its kind, on a wrong magic cookie
\* and on a type tag without format; parse_request_message does so too,
\* and also on a whole Offer or Payload.
C22_DecodeErrors ==
    /\ (codec.pc \in {"parsed", "parsed_request"}
          /\ codec.damage \in {"truncated", "cookie", "type"})
            => codec.result = ValueError
    /\ (codec.pc = "parsed_request" /\ codec.damage = "none"
          /\ codec.message.type # REQUEST_MESSAGE_TYPE)
            => codec.result = ValueError
    /\ codec.result.raised \in {"none", "ValueError"}

\* a Payload whose magic cookie was changed has been refused
C22_Witness ==
    /\ codec.pc = "parsed"
    /\ codec.damage = "cookie"
    /\ codec.message.type = PAYLOAD_MESSAGE_TYPE
    /\ Len(codec.data) = 23
    /\ codec.result = ValueError


\* the Offer of 9 bytes for the two ports of the server
IsOfferOf(m, s) ==
    /\ Len(m) = 9
    /\ SubSeq(m, 1, 4) = validator
    /\ m[5] = massage_offer
    /\ m[6] * 256 + m[7] = s.data_udp_port
    /\ m[8] * 256 + m[9] = s.connection_tcp_port

\* C27: the broadcast thread builds the Offer once, for the UDP and TCP
\* ports the server has from its construction on, and every sendto sends
\* that message; a sendto that fails leaves the thread in its loop; the
\* loop ends only with is_active false, and once is_active is false it
\* ends.
C27_BroadcastsSameOffer ==
    /\ [](server.offer_message # <<>> =>
            IsOfferOf(server.offer_message, server))
    /\ [](server.last_sent # <<>> => server.last_sent = server.offer_message)
    /\ [](server.broadcast = "done" => ~server.is_active)
    /\ [][/\ server'.data_udp_port = server.data_udp_port
          /\ server'.connection_tcp_port = server.connection_tcp_port
          /\ server.offer_message # <<>> =>
                server'.offer_message = server.offer_message
          /\ (server.broadcast = "send" /\ server'.broadcast # "send") =>
                server'.broadcast = "loop"]_vars
    /\ (server.broadcast \in {"loop", "send"} /\ ~server.is_active)
          ~> (server.broadcast = "done")

\* the loop goes on after a failed sendto: the Offer has been sent again
C27_Witness ==
    /\ server.is_active
    /\ server.broadcast = "loop"
    /\ server.recovery = "recovered"
    /\ IsOfferOf(server.last_sent, server)


\* the main thread waits for sync_lock: at initialize_performance_data, or
\* at display_test_results once every join has returned
MainWaiting ==
    \/ mainpc = "reset"
    \/ mainpc = "join" /\ join_idx > Len(test_threads)

\* C31: a thread that requests sync_lock does not hold it, and whoever
\* holds it is inside a `with self.sync_lock:` block: the lock is given
\* back when a block is left, by its last statement or by an exception.
\* So the lock is free again after every acquisition, and no test thread,
\* no display_test_results and no statistics reset waits for it for ever.
C31_LockNeverBlocksForEver ==
    /\ [](\A t \in Threads :
            threads[t].pc \in WaitingPcs => sync_lock # t)
    /\ [](MainWaiting => sync_lock # MainThread)
    /\ [](sync_lock # Unlocked => sync_lock \in InCritical)
    /\ [][(sync_lock # Unlocked /\ sync_lock \notin InCritical')
            => sync_lock' = Unlocked]_vars
    /\ (sync_lock # Unlocked) ~> (sync_lock = Unlocked)
    /\ \A t \in Threads :
          (threads[t].pc \in WaitingPcs) ~> (threads[t].pc \notin WaitingPcs)
    /\ MainWaiting ~> ~MainWaiting

\* display_test_results waits for the lock a test thread that outlived its
\* join holds, after the reset of the session took and released it
C31_Witness ==
    /\ mainpc = "join"
    /\ join_idx > Len(test_threads)
    /\ sync_lock \in Threads
    /\ threads[sync_lock].pc \in CriticalPcs


\* the positions of a TCP run inside the `while` of handle_data_transfer
ReceiveLoopPcs == {"transfer", "select"}

\* the TCP runs inside the receive loop
Receiving ==
    {t \in Threads : threads[t].kind = "tcp" /\ threads[t].pc \in ReceiveLoopPcs}

\* C32: throughout the receive loop of a TCP run the counter stays between
\* 0 and file_size; a read adds at most min(65536, file_size -
\* bytes_received) to it and nothing takes from it; the body of the loop is
\* entered only with the counter below file_size.
C32_CounterWithinFileSize ==
    /\ [](\A t \in Receiving :
            /\ 0 <= threads[t].bytes_received
            /\ threads[t].bytes_received <= file_size)
    /\ [](\A t \in Receiving :
            threads[t].pc = "select" => threads[t].bytes_received < file_size)
    /\ [][\A t \in Receiving :
            t \in Receiving' =>
              /\ threads'[t].bytes_received >= threads[t].bytes_received
              /\ threads'[t].bytes_received - threads[t].bytes_received
                   <= Min(MAX_CHUNK_SIZE,
                          file_size - threads[t].bytes_received)]_vars

====
